---- MODULE Spec2Model ----
(***************************************************************************)
(* Four-player Luzhanqi rule engine (game/piece.py, game/board.py,         *)
(* game/game_logic.py): board topology, movement legality, combat,         *)
(* elimination and the turn state machine.                                 *)
(*                                                                         *)
(* A position is the pair <<row, col>>.  A piece is a record               *)
(* [piece_type, player, visible, kill_count, piece_id]; an empty cell      *)
(* holds NoPiece.  GameLogic.testing_mode keeps its constructor value      *)
(* False throughout (only the GUI's development switch sets it).           *)
(***************************************************************************)
EXTENDS Integers, Sequences, FiniteSets, TLC

(***************************************************************************)
(* game/piece.py                                                           *)
(***************************************************************************)
PLAYER1 == 1
PLAYER2 == 2
PLAYER3 == 3
PLAYER4 == 4
Player == {PLAYER1, PLAYER2, PLAYER3, PLAYER4}

PieceType == {"COMMANDER", "GENERAL", "DIVISION", "BRIGADE", "REGIMENT",
              "BATTALION", "COMPANY", "PLATOON", "ENGINEER", "BOMB", "MINE",
              "FLAG"}

NoPiece == [piece_type |-> "NONE"]

Piece(pt, pl, vis, kc, id) ==
    [piece_type |-> pt, player |-> pl, visible |-> vis, kill_count |-> kc,
     piece_id |-> id]

get_power(piece) ==
    CASE piece.piece_type = "COMMANDER" -> 10
      [] piece.piece_type = "GENERAL"   -> 9
      [] piece.piece_type = "DIVISION"  -> 8
      [] piece.piece_type = "BRIGADE"   -> 7
      [] piece.piece_type = "REGIMENT"  -> 6
      [] piece.piece_type = "BATTALION" -> 5
      [] piece.piece_type = "COMPANY"   -> 4
      [] piece.piece_type = "PLATOON"   -> 3
      [] piece.piece_type = "ENGINEER"  -> 2
      [] piece.piece_type = "BOMB"      -> 1
      [] piece.piece_type = "MINE"      -> 0
      [] piece.piece_type = "FLAG"      -> -1

Piece_can_move(piece) == piece.piece_type \notin {"MINE", "FLAG"}
is_engineer(piece) == piece.piece_type = "ENGINEER"
is_bomb(piece) == piece.piece_type = "BOMB"
is_mine(piece) == piece.piece_type = "MINE"
is_flag(piece) == piece.piece_type = "FLAG"

\* the pieces a seat starts with
INITIAL_PIECES ==
    [pt \in PieceType |->
        CASE pt \in {"COMMANDER", "GENERAL", "FLAG"} -> 1
          [] pt \in {"DIVISION", "BRIGADE", "REGIMENT", "BATTALION", "BOMB"} -> 2
          [] pt \in {"COMPANY", "PLATOON", "ENGINEER", "MINE"} -> 3]

(***************************************************************************)
(* game/board.py : topology                                                *)
(***************************************************************************)
NoArea == 0

\* _setup_center_grid: the nine hub nodes, all Railway, owned by nobody
CenterCells == {<<6 + r, 6 + c>> : r \in {0, 2, 4}, c \in {0, 2, 4}}
\* _create_south/west/north/east_player_area
SouthCells == {<<11 + r, 6 + c>> : r \in 0..5, c \in 0..4}
WestCells  == {<<6 + r, 0 + c>> : r \in 0..4, c \in 0..5}
NorthCells == {<<0 + r, 6 + c>> : r \in 0..5, c \in 0..4}
EastCells  == {<<6 + r, 11 + c>> : r \in 0..4, c \in 0..5}

\* Board.cells (the key set)
Cells == CenterCells \cup SouthCells \cup WestCells \cup NorthCells \cup EastCells

player_area(pos) ==
    IF pos \in SouthCells THEN PLAYER1
    ELSE IF pos \in WestCells THEN PLAYER2
    ELSE IF pos \in NorthCells THEN PLAYER3
    ELSE IF pos \in EastCells THEN PLAYER4
    ELSE NoArea

railway_positions ==
    {<<1, 1>>, <<1, 2>>, <<1, 3>>, <<1, 4>>, <<1, 5>>,
     <<5, 1>>, <<5, 2>>, <<5, 3>>, <<5, 4>>, <<5, 5>>,
     <<2, 1>>, <<3, 1>>, <<4, 1>>,
     <<2, 5>>, <<3, 5>>, <<4, 5>>}
camp_positions == {<<2, 2>>, <<2, 4>>, <<3, 3>>, <<4, 2>>, <<4, 4>>}
headquarters_positions == {<<6, 2>>, <<6, 4>>}

\* local_row, local_col are 0-based offsets inside the player's rectangle
_get_cell_type_by_template(local_row, local_col, player) ==
    LET r == local_row + 1
        c == local_col + 1
        rc == CASE player = PLAYER1 -> <<r, c>>
                [] player = PLAYER2 -> <<6 - c + 1, r>>
                [] player = PLAYER3 -> <<6 - r + 1, 5 - c + 1>>
                [] player = PLAYER4 -> <<c, 5 - r + 1>>
    IN  IF rc \in railway_positions THEN "RAILWAY"
        ELSE IF rc \in camp_positions THEN "CAMP"
        ELSE IF rc \in headquarters_positions THEN "HEADQUARTERS"
        ELSE "NORMAL"

\* Cell.cell_type as fixed by _setup_board
cell_type ==
    [pos \in Cells |->
        CASE pos \in CenterCells -> "RAILWAY"
          [] pos \in SouthCells -> _get_cell_type_by_template(pos[1] - 11, pos[2] - 6, PLAYER1)
          [] pos \in WestCells  -> _get_cell_type_by_template(pos[1] - 6, pos[2] - 0, PLAYER2)
          [] pos \in NorthCells -> _get_cell_type_by_template(pos[1] - 0, pos[2] - 6, PLAYER3)
          [] pos \in EastCells  -> _get_cell_type_by_template(pos[1] - 6, pos[2] - 11, PLAYER4)]

Abs(x) == IF x < 0 THEN -x ELSE x

_is_valid_inter_player_connection(pos1, pos2, player1, player2) ==
    IF {player1, player2} = {PLAYER1, PLAYER2} THEN
        LET south_pos == IF player1 = PLAYER1 THEN pos1 ELSE pos2
            west_pos  == IF player1 = PLAYER1 THEN pos2 ELSE pos1
        IN  south_pos = <<11, 6>> /\ west_pos = <<10, 5>>
    ELSE IF {player1, player2} = {PLAYER1, PLAYER4} THEN
        LET south_pos == IF player1 = PLAYER1 THEN pos1 ELSE pos2
            east_pos  == IF player1 = PLAYER1 THEN pos2 ELSE pos1
        IN  south_pos = <<11, 10>> /\ east_pos = <<6, 11>>
    ELSE IF {player1, player2} = {PLAYER3, PLAYER2} THEN
        LET north_pos == IF player1 = PLAYER3 THEN pos1 ELSE pos2
            west_pos  == IF player1 = PLAYER3 THEN pos2 ELSE pos1
        IN  north_pos = <<5, 10>> /\ west_pos = <<10, 5>>
    ELSE IF {player1, player2} = {PLAYER3, PLAYER4} THEN
        LET north_pos == IF player1 = PLAYER3 THEN pos1 ELSE pos2
            east_pos  == IF player1 = PLAYER3 THEN pos2 ELSE pos1
        IN  north_pos = <<5, 6>> /\ east_pos = <<10, 11>>
    ELSE FALSE

is_center_position(pos) == pos[1] \in 6..10 /\ pos[2] \in 6..10
is_player_area_position(pos) == pos \in Cells /\ player_area(pos) # NoArea

_is_valid_player_center_connection(pos1, pos2) ==
    IF ~(is_center_position(pos1) \/ is_center_position(pos2)) THEN
        IF is_player_area_position(pos1) /\ is_player_area_position(pos2) THEN
            IF player_area(pos1) = player_area(pos2) THEN TRUE
            ELSE _is_valid_inter_player_connection(pos1, pos2, player_area(pos1), player_area(pos2))
        ELSE TRUE
    ELSE IF /\ is_center_position(pos1) /\ is_center_position(pos2)
            /\ \/ (Abs(pos1[1] - pos2[1]) = 2 /\ Abs(pos1[2] - pos2[2]) = 0)
               \/ (Abs(pos1[1] - pos2[1]) = 0 /\ Abs(pos1[2] - pos2[2]) = 2)
         THEN TRUE
    ELSE IF /\ is_player_area_position(pos1) /\ is_player_area_position(pos2)
            /\ player_area(pos1) = player_area(pos2)
         THEN TRUE
    ELSE
        LET center_pos == IF is_center_position(pos1) THEN pos1 ELSE pos2
            player_pos == IF is_center_position(pos1) THEN pos2 ELSE pos1
        IN  IF is_center_position(center_pos) /\ is_player_area_position(player_pos) THEN
                CASE player_area(player_pos) = PLAYER1 ->
                        /\ player_pos[1] = 11 /\ player_pos[2] \in {6, 8, 10}
                        /\ center_pos[1] = 10 /\ center_pos[2] = player_pos[2]
                  [] player_area(player_pos) = PLAYER3 ->
                        /\ player_pos[1] = 5 /\ player_pos[2] \in {6, 8, 10}
                        /\ center_pos[1] = 6 /\ center_pos[2] = player_pos[2]
                  [] player_area(player_pos) = PLAYER2 ->
                        /\ player_pos[2] = 5 /\ player_pos[1] \in {6, 8, 10}
                        /\ center_pos[2] = 6 /\ center_pos[1] = player_pos[1]
                  [] player_area(player_pos) = PLAYER4 ->
                        /\ player_pos[2] = 11 /\ player_pos[1] \in {6, 8, 10}
                        /\ center_pos[2] = 10 /\ center_pos[1] = player_pos[1]
            ELSE FALSE

\* get_adjacent_positions as computed from the fixed topology
adjacent_of(position) ==
    LET is_center_node == /\ position[1] \in 6..10 /\ position[2] \in 6..10
                          /\ position[1] % 2 = 0 /\ position[2] % 2 = 0
        directions == IF is_center_node
                      THEN {<<-2, 0>>, <<2, 0>>, <<0, -2>>, <<0, 2>>,
                            <<-1, 0>>, <<1, 0>>, <<0, -1>>, <<0, 1>>}
                      ELSE {<<-1, 0>>, <<1, 0>>, <<0, -1>>, <<0, 1>>}
        straight == {new_pos \in {<<position[1] + d[1], position[2] + d[2]>> : d \in directions} :
                        /\ new_pos \in Cells
                        /\ _is_valid_player_center_connection(position, new_pos)}
        camp_diagonals == {<<-1, -1>>, <<-1, 1>>, <<1, -1>>, <<1, 1>>}
        diagonal == IF position \notin Cells THEN {}
                    ELSE {diag_pos \in {<<position[1] + d[1], position[2] + d[2]>> : d \in camp_diagonals} :
                            /\ diag_pos \in Cells
                            /\ (cell_type[position] = "CAMP" \/ cell_type[diag_pos] = "CAMP")
                            /\ player_area(position) # NoArea
                            /\ player_area(position) = player_area(diag_pos)}
    IN  straight \cup diagonal

AdjacentTable == [pos \in Cells |-> adjacent_of(pos)]

get_adjacent_positions(position) ==
    IF position \in Cells THEN AdjacentTable[position] ELSE adjacent_of(position)


(***************************************************************************)
(* game/board.py : occupancy-dependent queries.  A board b is a function   *)
(* from Cells to pieces (NoPiece for an empty cell).                       *)
(***************************************************************************)
_get_axis_players(player) ==
    IF player \in {PLAYER1, PLAYER3} THEN {PLAYER1, PLAYER3} ELSE {PLAYER2, PLAYER4}

_are_allied(a, b) == a \in _get_axis_players(b)

\* the four cross-quadrant corner edges (corner_links / corner_pairs)
corner_links ==
    {<<<<6, 5>>, <<5, 6>>>>, <<<<10, 5>>, <<11, 6>>>>,
     <<<<11, 10>>, <<10, 11>>>>, <<<<6, 11>>, <<5, 10>>>>}

\* the cells the BFS would look at if the corner edges were left out
rail_links_without_corners(current) ==
    {adj \in get_adjacent_positions(current) : cell_type[adj] = "RAILWAY"}

\* cells the BFS looks at from `current`: corner partner, then Railway neighbours
rail_links_of(current) ==
    {l[2] : l \in {k \in corner_links : k[1] = current}}
    \cup {l[1] : l \in {k \in corner_links : k[2] = current}}
    \cup {adj \in get_adjacent_positions(current) : cell_type[adj] = "RAILWAY"}

RailLinkTable == [pos \in Cells |-> rail_links_of(pos)]

RECURSIVE railway_bfs(_, _, _, _, _)

\* one round of the BFS: seen are the cells reached from the queue for the
\* first time, empty those of them the search goes on from
bfs_round(b, start_piece, visited, reachable, seen, empty) ==
    railway_bfs(b, start_piece, empty, visited \cup seen,
                reachable \cup empty
                \cup {p \in seen : /\ b[p] # NoPiece
                                   /\ start_piece # NoPiece
                                   /\ ~_are_allied(b[p].player, start_piece.player)})

bfs_seen(b, start_piece, visited, reachable, seen) ==
    bfs_round(b, start_piece, visited, reachable, seen,
              {p \in seen : b[p] = NoPiece})

railway_bfs(b, start_piece, q, visited, reachable) ==
    IF q = {} THEN reachable
    ELSE bfs_seen(b, start_piece, visited, reachable,
                  (UNION {RailLinkTable[current] : current \in q}) \ visited)

get_railway_connected_positions(b, position) ==
    IF position \notin Cells \/ cell_type[position] # "RAILWAY" THEN {}
    ELSE railway_bfs(b, b[position], {position}, {position}, {})

\* hard-coded edge lines, listed from the corner outwards
south_left_edge  == <<<<11, 6>>, <<12, 6>>, <<13, 6>>, <<14, 6>>, <<15, 6>>>>
south_right_edge == <<<<11, 10>>, <<12, 10>>, <<13, 10>>, <<14, 10>>, <<15, 10>>>>
north_1_edge     == <<<<5, 10>>, <<4, 10>>, <<3, 10>>, <<2, 10>>, <<1, 10>>>>
north_5_edge     == <<<<5, 6>>, <<4, 6>>, <<3, 6>>, <<2, 6>>, <<1, 6>>>>
west_edge_five   == <<<<10, 5>>, <<10, 4>>, <<10, 3>>, <<10, 2>>, <<10, 1>>>>
west_edge_one    == <<<<6, 5>>, <<6, 4>>, <<6, 3>>, <<6, 2>>, <<6, 1>>>>
east_edge_one    == <<<<10, 11>>, <<10, 12>>, <<10, 13>>, <<10, 14>>, <<10, 15>>>>
east_edge_five   == <<<<6, 11>>, <<6, 12>>, <<6, 13>>, <<6, 14>>, <<6, 15>>>>

SeqRange(s) == {s[i] : i \in 1..Len(s)}

corner_cells == {<<11, 6>>, <<11, 10>>, <<5, 6>>, <<5, 10>>,
                 <<6, 5>>, <<10, 5>>, <<6, 11>>, <<10, 11>>}

allowed_sources_by_corner ==
    [c \in corner_cells |->
        CASE c = <<11, 6>>  -> south_left_edge
          [] c = <<11, 10>> -> south_right_edge
          [] c = <<5, 6>>   -> north_5_edge
          [] c = <<5, 10>>  -> north_1_edge
          [] c = <<6, 5>>   -> west_edge_one
          [] c = <<10, 5>>  -> west_edge_five
          [] c = <<6, 11>>  -> east_edge_five
          [] c = <<10, 11>> -> east_edge_one]

bridge_targets_by_corner ==
    [c \in corner_cells |->
        CASE c = <<11, 6>>  -> <<<<10, 5>>, <<10, 4>>, <<10, 3>>, <<10, 2>>, <<10, 1>>>>
          [] c = <<11, 10>> -> <<<<10, 11>>, <<10, 12>>, <<10, 13>>, <<10, 14>>, <<10, 15>>>>
          [] c = <<5, 6>>   -> <<<<6, 5>>, <<6, 4>>, <<6, 3>>, <<6, 2>>, <<6, 1>>>>
          [] c = <<5, 10>>  -> <<<<6, 11>>, <<6, 12>>, <<6, 13>>, <<6, 14>>, <<6, 15>>>>
          [] c = <<6, 5>>   -> <<<<5, 6>>, <<4, 6>>, <<3, 6>>, <<2, 6>>, <<1, 6>>>>
          [] c = <<10, 5>>  -> <<<<11, 6>>, <<12, 6>>, <<13, 6>>, <<14, 6>>, <<15, 6>>>>
          [] c = <<6, 11>>  -> <<<<5, 10>>, <<4, 10>>, <<3, 10>>, <<2, 10>>, <<1, 10>>>>
          [] c = <<10, 11>> -> <<<<11, 10>>, <<12, 10>>, <<13, 10>>, <<14, 10>>, <<15, 10>>>>]

\* add_step that goes on past an enemy piece instead of stopping on it
add_step_past_enemy(b, start_piece, next_pos) ==
    IF next_pos \notin Cells \/ cell_type[next_pos] # "RAILWAY" THEN
        [stop |-> TRUE, added |-> FALSE]
    ELSE IF b[next_pos] # NoPiece THEN
        IF start_piece # NoPiece /\ ~_are_allied(b[next_pos].player, start_piece.player)
        THEN [stop |-> FALSE, added |-> TRUE]
        ELSE [stop |-> TRUE, added |-> FALSE]
    ELSE [stop |-> FALSE, added |-> TRUE]

\* add_step: [stop, added]
add_step(b, start_piece, next_pos) ==
    IF next_pos \notin Cells \/ cell_type[next_pos] # "RAILWAY" THEN
        [stop |-> TRUE, added |-> FALSE]
    ELSE IF b[next_pos] # NoPiece THEN
        IF start_piece # NoPiece /\ ~_are_allied(b[next_pos].player, start_piece.player)
        THEN [stop |-> TRUE, added |-> TRUE]
        ELSE [stop |-> TRUE, added |-> FALSE]
    ELSE [stop |-> FALSE, added |-> TRUE]

NoPos == <<-1, -1>>

next_along_axis(curr, axis, sign, prev) ==
    LET dist(p) == IF axis = "h" THEN Abs(p[2] - curr[2]) ELSE Abs(p[1] - curr[1])
        nearest(candidates) ==
            IF candidates = {} THEN NoPos
            ELSE CHOOSE p \in candidates : \A o \in candidates : dist(p) <= dist(o)
    IN  nearest({adj \in get_adjacent_positions(curr) :
                    /\ cell_type[adj] = "RAILWAY"
                    /\ \/ /\ axis = "h" /\ adj[1] = curr[1]
                          /\ (adj[2] - curr[2]) * sign > 0
                          /\ (prev = NoPos \/ adj # prev)
                       \/ /\ axis = "v" /\ adj[2] = curr[2]
                          /\ (adj[1] - curr[1]) * sign > 0
                          /\ (prev = NoPos \/ adj # prev)})

RECURSIVE bridge_walk(_, _, _, _)
bridge_walk(b, start_piece, targets, i) ==
    IF i > Len(targets) THEN {}
    ELSE LET walk(s) ==
                 (IF s.added THEN {targets[i]} ELSE {})
                 \cup (IF s.stop THEN {} ELSE bridge_walk(b, start_piece, targets, i + 1))
         IN  walk(add_step(b, start_piece, targets[i]))

\* perform_bridge that never bridges
no_bridge(b, position, curr) == [bridged |-> FALSE, added |-> {}]

\* perform_bridge: [bridged, added]
perform_bridge(b, position, curr) ==
    IF curr \notin corner_cells THEN [bridged |-> FALSE, added |-> {}]
    ELSE IF position \notin SeqRange(allowed_sources_by_corner[curr]) /\ position # curr
         THEN [bridged |-> FALSE, added |-> {}]
    ELSE [bridged |-> TRUE,
          added |-> bridge_walk(b, b[position], bridge_targets_by_corner[curr], 1)]

can_bridge(position) ==
    \E c \in corner_cells : position \in SeqRange(allowed_sources_by_corner[c])

RECURSIVE scan_loop(_, _, _, _, _, _, _)

\* the scan after the step onto nxt went on: pb is what perform_bridge did
scan_go_on(b, position, axis, sign, curr, bridged, nxt, pb) ==
    {nxt} \cup pb.added
    \cup scan_loop(b, position, axis, sign, nxt, curr, bridged \/ pb.bridged)

\* the scan after add_step answered s for the cell nxt
scan_step(b, position, axis, sign, curr, bridged, nxt, s) ==
    IF s.stop THEN (IF s.added THEN {nxt} ELSE {})
    ELSE scan_go_on(b, position, axis, sign, curr, bridged, nxt,
                    IF can_bridge(position) /\ ~bridged
                    THEN perform_bridge(b, position, nxt)
                    ELSE [bridged |-> FALSE, added |-> {}])

scan_visit(b, position, axis, sign, curr, bridged, nxt) ==
    IF nxt = NoPos THEN {}
    ELSE scan_step(b, position, axis, sign, curr, bridged, nxt,
                   add_step(b, b[position], nxt))

scan_loop(b, position, axis, sign, curr, prev, bridged) ==
    scan_visit(b, position, axis, sign, curr, bridged,
               next_along_axis(curr, axis, sign, prev))

scan_from(b, position, axis, sign, pb) ==
    pb.added \cup scan_loop(b, position, axis, sign, position, NoPos, pb.bridged)

scan_axis(b, position, axis, sign) ==
    scan_from(b, position, axis, sign,
              IF can_bridge(position)
              THEN perform_bridge(b, position, position)
              ELSE [bridged |-> FALSE, added |-> {}])

get_railway_straight_reachable_positions(b, position) ==
    IF position \notin Cells \/ cell_type[position] # "RAILWAY" THEN {}
    ELSE UNION {scan_axis(b, position, d[1], d[2]) :
                    d \in {<<"h", 1>>, <<"h", -1>>, <<"v", 1>>, <<"v", -1>>}}

\* Board.can_move without the rule that a piece on a Headquarters stays there
can_move_off_headquarters(b, from_pos, to_pos) ==
    IF from_pos \notin Cells \/ to_pos \notin Cells THEN FALSE
    ELSE IF b[from_pos] = NoPiece THEN FALSE
    ELSE IF is_mine(b[from_pos]) \/ is_flag(b[from_pos]) THEN FALSE
    ELSE IF b[to_pos] # NoPiece /\ _are_allied(b[to_pos].player, b[from_pos].player) THEN FALSE
    ELSE IF b[to_pos] # NoPiece /\ cell_type[to_pos] = "CAMP" THEN FALSE
    ELSE IF cell_type[from_pos] = "RAILWAY" /\ cell_type[to_pos] = "RAILWAY" THEN
        IF is_engineer(b[from_pos])
        THEN to_pos \in get_railway_connected_positions(b, from_pos)
        ELSE to_pos \in get_railway_straight_reachable_positions(b, from_pos)
    ELSE to_pos \in get_adjacent_positions(from_pos)

\* Board.can_move without the rule that protects the occupant of a Camp
can_move_into_camp(b, from_pos, to_pos) ==
    IF from_pos \notin Cells \/ to_pos \notin Cells THEN FALSE
    ELSE IF b[from_pos] = NoPiece THEN FALSE
    ELSE IF cell_type[from_pos] = "HEADQUARTERS" THEN FALSE
    ELSE IF is_mine(b[from_pos]) \/ is_flag(b[from_pos]) THEN FALSE
    ELSE IF b[to_pos] # NoPiece /\ _are_allied(b[to_pos].player, b[from_pos].player) THEN FALSE
    ELSE IF cell_type[from_pos] = "RAILWAY" /\ cell_type[to_pos] = "RAILWAY" THEN
        IF is_engineer(b[from_pos])
        THEN to_pos \in get_railway_connected_positions(b, from_pos)
        ELSE to_pos \in get_railway_straight_reachable_positions(b, from_pos)
    ELSE to_pos \in get_adjacent_positions(from_pos)

Board_can_move(b, from_pos, to_pos) ==
    IF from_pos \notin Cells \/ to_pos \notin Cells THEN FALSE
    ELSE IF b[from_pos] = NoPiece THEN FALSE
    ELSE IF cell_type[from_pos] = "HEADQUARTERS" THEN FALSE
    ELSE IF is_mine(b[from_pos]) \/ is_flag(b[from_pos]) THEN FALSE
    ELSE IF b[to_pos] # NoPiece /\ _are_allied(b[to_pos].player, b[from_pos].player) THEN FALSE
    ELSE IF b[to_pos] # NoPiece /\ cell_type[to_pos] = "CAMP" THEN FALSE
    ELSE IF cell_type[from_pos] = "RAILWAY" /\ cell_type[to_pos] = "RAILWAY" THEN
        IF is_engineer(b[from_pos])
        THEN to_pos \in get_railway_connected_positions(b, from_pos)
        ELSE to_pos \in get_railway_straight_reachable_positions(b, from_pos)
    ELSE to_pos \in get_adjacent_positions(from_pos)

\* Board._battle with the Bomb test ahead of the Flag test
_battle_bomb_first(attacker, defender) ==
    IF is_bomb(attacker) \/ is_bomb(defender) THEN NoPiece
    ELSE IF is_flag(defender) THEN attacker
    ELSE IF is_mine(defender) THEN (IF is_engineer(attacker) THEN attacker ELSE defender)
    ELSE IF is_mine(attacker) THEN defender
    ELSE IF get_power(attacker) > get_power(defender) THEN attacker
    ELSE IF get_power(attacker) < get_power(defender) THEN defender
    ELSE NoPiece

\* Board._battle without the Mine rules: a Mine fights with its power
_battle_without_mine_rule(attacker, defender) ==
    IF is_flag(defender) THEN attacker
    ELSE IF is_bomb(attacker) \/ is_bomb(defender) THEN NoPiece
    ELSE IF get_power(attacker) > get_power(defender) THEN attacker
    ELSE IF get_power(attacker) < get_power(defender) THEN defender
    ELSE NoPiece

\* the winner piece, or NoPiece when both die
_battle(attacker, defender) ==
    IF is_flag(defender) THEN attacker
    ELSE IF is_bomb(attacker) \/ is_bomb(defender) THEN NoPiece
    ELSE IF is_mine(defender) THEN (IF is_engineer(attacker) THEN attacker ELSE defender)
    ELSE IF is_mine(attacker) THEN defender
    ELSE IF get_power(attacker) > get_power(defender) THEN attacker
    ELSE IF get_power(attacker) < get_power(defender) THEN defender
    ELSE NoPiece

\* Board._reveal_flags_for_players that reveals nothing
_reveal_no_flags(b, players) == b

_reveal_flags_for_players(b, players) ==
    [pos \in Cells |->
        IF b[pos] # NoPiece /\ is_flag(b[pos]) /\ b[pos].player \in players
        THEN [b[pos] EXCEPT !.visible = TRUE]
        ELSE b[pos]]

\* the winner of a battle credited with one kill only
credit_one_kill(winner, loser) ==
    [winner EXCEPT !.kill_count = @ + 1]

\* the winner of a battle takes over the loser's kill count and adds one
credit_kills(winner, loser) ==
    [winner EXCEPT !.kill_count = @ + (loser.kill_count + 1)]

\* Board.move_piece: [ok, board]
Board_move_piece(b, from_pos, to_pos) ==
    IF ~Board_can_move(b, from_pos, to_pos) THEN [ok |-> FALSE, board |-> b]
    ELSE
        LET moving_piece == b[from_pos]
            target_piece == b[to_pos]
            winner == IF target_piece # NoPiece THEN _battle(moving_piece, target_piece)
                      ELSE NoPiece
            dead_commander_players ==
                IF target_piece = NoPiece THEN {}
                ELSE IF winner = moving_piece THEN
                    (IF target_piece.piece_type = "COMMANDER" THEN {target_piece.player} ELSE {})
                ELSE IF winner = target_piece THEN
                    (IF moving_piece.piece_type = "COMMANDER" THEN {moving_piece.player} ELSE {})
                ELSE (IF moving_piece.piece_type = "COMMANDER" THEN {moving_piece.player} ELSE {})
                     \cup (IF target_piece.piece_type = "COMMANDER" THEN {target_piece.player} ELSE {})
            b1 == IF target_piece = NoPiece THEN
                      [b EXCEPT ![to_pos] = moving_piece, ![from_pos] = NoPiece]
                  ELSE IF winner = moving_piece THEN
                      [b EXCEPT ![to_pos] = credit_kills(moving_piece, target_piece),
                                ![from_pos] = NoPiece]
                  ELSE IF winner = target_piece THEN
                      [b EXCEPT ![to_pos] = credit_kills(target_piece, moving_piece),
                                ![from_pos] = NoPiece]
                  ELSE [b EXCEPT ![from_pos] = NoPiece, ![to_pos] = NoPiece]
        IN  [ok |-> TRUE,
             board |-> IF dead_commander_players # {}
                       THEN _reveal_flags_for_players(b1, dead_commander_players)
                       ELSE b1]

is_game_over(b) ==
    LET alive == {b[pos].player : pos \in {c \in Cells : b[c] # NoPiece}}
        south_north_dead == PLAYER1 \notin alive /\ PLAYER3 \notin alive
        east_west_dead == PLAYER2 \notin alive /\ PLAYER4 \notin alive
    IN  south_north_dead \/ east_west_dead

has_player_any_legal_move(b, player) ==
    \E pos \in Cells :
        /\ b[pos] # NoPiece /\ b[pos].player = player
        /\ ~(cell_type[pos] = "HEADQUARTERS" \/ is_mine(b[pos]) \/ is_flag(b[pos]))
        /\ \E to_pos \in (IF cell_type[pos] = "RAILWAY" THEN
                               IF is_engineer(b[pos])
                               THEN get_railway_connected_positions(b, pos)
                               ELSE get_railway_straight_reachable_positions(b, pos)
                           ELSE get_adjacent_positions(pos)) :
                Board_can_move(b, pos, to_pos)


(***************************************************************************)
(* game/formations.py.  A template row is a sequence of characters; the    *)
(* characters are written by name: "si" and "ling" (Commander), "jun",     *)
(* "shi", "lv", "tuan", "ying", "lian", "pai", "bing", "zha" and "dan"     *)
(* (Bomb), "lei", "qi"; "dot" is the middle dot, "ellipsis" the one-column *)
(* ellipsis, "period" the full stop and "space" the blank.                 *)
(***************************************************************************)
CHAR_TO_PIECE ==
    "si" :> "COMMANDER" @@ "ling" :> "COMMANDER" @@ "jun" :> "GENERAL" @@
    "shi" :> "DIVISION" @@ "lv" :> "BRIGADE" @@ "tuan" :> "REGIMENT" @@
    "ying" :> "BATTALION" @@ "lian" :> "COMPANY" @@ "pai" :> "PLATOON" @@
    "bing" :> "ENGINEER" @@ "zha" :> "BOMB" @@ "dan" :> "BOMB" @@
    "lei" :> "MINE" @@ "qi" :> "FLAG"

\* str.replace of a run of n full stops by one ellipsis, left to right
RECURSIVE replace_periods(_, _)
replace_periods(r, n) ==
    IF Len(r) < n THEN r
    ELSE IF \A i \in 1..n : r[i] = "period"
         THEN <<"ellipsis">> \o replace_periods(SubSeq(r, n + 1, Len(r)), n)
    ELSE <<r[1]>> \o replace_periods(Tail(r), n)

normalize_row(row) ==
    LET not_space(ch) == ch # "space"
    IN  replace_periods(replace_periods(SelectSeq(row, not_space), 3), 2)

\* the built-in templates, in the order of the dictionary
FORMATIONS ==
    "hedong_shihou" :>
        <<<<"shi", "bing", "lian", "pai", "shi">>,
          <<"lv", "ellipsis", "lian", "ellipsis", "zha">>,
          <<"zha", "ying", "ellipsis", "tuan", "lv">>,
          <<"jun", "ellipsis", "bing", "ellipsis", "lian">>,
          <<"si", "bing", "ying", "lei", "pai">>,
          <<"tuan", "pai", "lei", "qi", "lei">>>> @@
    "wuye_fengling" :>
        <<<<"lian", "lv", "si", "bing", "tuan">>,
          <<"shi", "ellipsis", "zha", "ellipsis", "jun">>,
          <<"tuan", "pai", "ellipsis", "lian", "bing">>,
          <<"pai", "ellipsis", "ying", "ellipsis", "ying">>,
          <<"lei", "lei", "lian", "shi", "zha">>,
          <<"lei", "qi", "lv", "pai", "bing">>>> @@
    "feihua_zhuyue" :>
        <<<<"lian", "si", "jun", "bing", "shi">>,
          <<"shi", "ellipsis", "lian", "ellipsis", "lv">>,
          <<"tuan", "dan", "ellipsis", "dan", "tuan">>,
          <<"ying", "ellipsis", "pai", "ellipsis", "ying">>,
          <<"lv", "bing", "bing", "pai", "lei">>,
          <<"lei", "qi", "lei", "pai", "lian">>>> @@
    "piaoxiang_yijian" :>
        <<<<"shi", "bing", "lian", "lv", "shi">>,
          <<"tuan", "ellipsis", "lian", "ellipsis", "zha">>,
          <<"tuan", "ying", "ellipsis", "zha", "ying">>,
          <<"si", "ellipsis", "bing", "ellipsis", "lian">>,
          <<"jun", "bing", "lv", "lei", "pai">>,
          <<"pai", "pai", "lei", "qi", "lei">>>> @@
    "yuwusheng_chu" :>
        <<<<"shi", "bing", "jun", "pai", "ying">>,
          <<"tuan", "ellipsis", "bing", "ellipsis", "lv">>,
          <<"shi", "dan", "ellipsis", "lian", "si">>,
          <<"dan", "ellipsis", "pai", "ellipsis", "lian">>,
          <<"ying", "lei", "lian", "lei", "tuan">>,
          <<"lv", "qi", "lei", "pai", "bing">>>> @@
    "wulong_baiwei" :>
        <<<<"ying", "bing", "tuan", "pai", "lian">>,
          <<"shi", "ellipsis", "bing", "ellipsis", "si">>,
          <<"lv", "lian", "ellipsis", "jun", "pai">>,
          <<"lian", "ellipsis", "bing", "ellipsis", "tuan">>,
          <<"dan", "lv", "shi", "ying", "lei">>,
          <<"dan", "pai", "lei", "qi", "lei">>>> @@
    "sanjie_zhen" :>
        <<<<"tuan", "pai", "jun", "bing", "ling">>,
          <<"lian", "ellipsis", "bing", "ellipsis", "tuan">>,
          <<"shi", "dan", "ellipsis", "bing", "lian">>,
          <<"pai", "ellipsis", "lian", "ellipsis", "lv">>,
          <<"lei", "ying", "shi", "dan", "lv">>,
          <<"lei", "qi", "lei", "pai", "ying">>>> @@
    "lang_laile" :>
        <<<<"tuan", "bing", "lv", "shi", "lian">>,
          <<"ying", "ellipsis", "bing", "ellipsis", "jun">>,
          <<"si", "bing", "ellipsis", "dan", "shi">>,
          <<"pai", "ellipsis", "dan", "ellipsis", "tuan">>,
          <<"ying", "lv", "lian", "lei", "lian">>,
          <<"pai", "pai", "lei", "qi", "lei">>>> @@
    "wushan_zhongjian" :>
        <<<<"lian", "pai", "bing", "bing", "tuan">>,
          <<"shi", "ellipsis", "lian", "ellipsis", "si">>,
          <<"tuan", "ying", "ellipsis", "ying", "shi">>,
          <<"zha", "ellipsis", "bing", "ellipsis", "lv">>,
          <<"jun", "lian", "lv", "lei", "zha">>,
          <<"lei", "qi", "lei", "pai", "pai">>>>

formation_order ==
    <<"hedong_shihou", "wuye_fengling", "feihua_zhuyue", "piaoxiang_yijian",
      "yuwusheng_chu", "wulong_baiwei", "sanjie_zhen", "lang_laile",
      "wushan_zhongjian">>

\* fm is the dictionary FORMATIONS as it stands when the function is called
has_formation(fm, name) == name \in DOMAIN fm /\ Len(fm[name]) = 6

list_formations(fm) == {n \in DOMAIN fm : Len(fm[n]) = 6}

\* register_formation: [fm, result]
register_formation(fm, name, grid) ==
    IF Len(grid) # 6 THEN [fm |-> fm, result |-> FALSE]
    ELSE [fm |-> [n \in DOMAIN fm \cup {name} |->
                    IF n = name THEN [i \in 1..6 |-> normalize_row(grid[i])]
                    ELSE fm[n]],
          result |-> TRUE]

\* char_to_piece_type that knows one character for the Bomb only
char_to_piece_type_one_bomb_char(ch) ==
    IF ch \in DOMAIN CHAR_TO_PIECE \ {"dan"} THEN CHAR_TO_PIECE[ch] ELSE "NONE"

\* "NONE" stands for None
char_to_piece_type(ch) ==
    IF ch \in DOMAIN CHAR_TO_PIECE THEN CHAR_TO_PIECE[ch] ELSE "NONE"


(***************************************************************************)
(* game/game_logic.py.  A GameLogic object is the record                   *)
(* [board, game_state, current_player, eliminated_players, history]; each  *)
(* method is an operator from the object (and its arguments) to the object *)
(* after the call and the value returned.                                  *)
(***************************************************************************)
\* 1-based (local_row, local_col) of a position in a seat's own orientation
_get_local_coords(position, player) ==
    CASE player = PLAYER1 -> <<position[1] - 11 + 1, position[2] - 6 + 1>>
      [] player = PLAYER2 -> <<5 - (position[2] - 0) + 1, (position[1] - 6) + 1>>
      [] player = PLAYER3 -> <<6 - (position[1] - 0), 5 - (position[2] - 6)>>
      [] player = PLAYER4 -> <<(position[2] - 11) + 1, 5 - (position[1] - 6)>>

faction_map ==
    [p \in Player |-> CASE p = PLAYER1 -> "south" [] p = PLAYER2 -> "west"
                        [] p = PLAYER3 -> "north" [] p = PLAYER4 -> "east"]

\* the clearing loop that removes nothing
keep_pieces_of(b, p) == b

\* the clearing loop that leaves the Flag of the seat where it stands
clear_pieces_but_flag(b, p) ==
    [pos \in Cells |-> IF b[pos] # NoPiece /\ b[pos].player = p /\ ~is_flag(b[pos])
                       THEN NoPiece ELSE b[pos]]

\* the loop "for position, cell in self.board.cells.items(): if cell.piece and
\* cell.piece.player == p: cell.piece = None"
clear_pieces_of(b, p) ==
    [pos \in Cells |-> IF b[pos] # NoPiece /\ b[pos].player = p THEN NoPiece ELSE b[pos]]

player_iteration_order == <<PLAYER1, PLAYER2, PLAYER3, PLAYER4>>

\* GameLogic.testing_mode: False from __init__ and from start_game on; only
\* the developer-mode button of the window, which is hidden, would set it
testing_mode == FALSE

\* one pass of the loop "for p in Player" of _ensure_elimination_status
ensure_elimination_step(st, remaining, p) ==
    IF /\ \/ remaining[p] = 0
          \/ ~has_player_any_legal_move(st.board, p)
       /\ p \notin st.eliminated_players
    THEN [st EXCEPT !.eliminated_players = @ \cup {p},
                    !.board = clear_pieces_of(@, p)]
    ELSE st

RECURSIVE ensure_elimination_loop(_, _, _)
ensure_elimination_loop(st, remaining, i) ==
    IF i > Len(player_iteration_order) THEN st
    ELSE ensure_elimination_loop(
             ensure_elimination_step(st, remaining, player_iteration_order[i]),
             remaining, i + 1)

_ensure_elimination_status(st) ==
    LET remaining == [p \in Player |->
                        Cardinality({pos \in Cells : /\ st.board[pos] # NoPiece
                                                     /\ st.board[pos].player = p})]
    IN  ensure_elimination_loop(st, remaining, 1)

ccw_order == <<PLAYER1, PLAYER4, PLAYER3, PLAYER2>>

\* GameLogic._next_turn that hands the turn to the next seat of the order,
\* eliminated or not
_next_turn_unfiltered(st) ==
    LET current_index == CHOOSE i \in 1..Len(ccw_order) : ccw_order[i] = st.current_player
    IN  IF Cardinality(st.eliminated_players) >= Len(ccw_order) - 1
        THEN [st EXCEPT !.game_state = "FINISHED"]
        ELSE [st EXCEPT !.current_player = ccw_order[(current_index % Len(ccw_order)) + 1]]

_next_turn(st) ==
    LET current_index == CHOOSE i \in 1..Len(ccw_order) : ccw_order[i] = st.current_player
        candidate(step) == ccw_order[((current_index - 1 + step) % Len(ccw_order)) + 1]
        steps == {step \in 1..Len(ccw_order) : candidate(step) \notin st.eliminated_players}
    IN  IF Cardinality(st.eliminated_players) >= Len(ccw_order) - 1
        THEN [st EXCEPT !.game_state = "FINISHED"]
        ELSE IF steps # {}
        THEN [st EXCEPT !.current_player =
                            candidate(CHOOSE step \in steps : \A o \in steps : step <= o)]
        ELSE [st EXCEPT !.game_state = "FINISHED"]

team_eliminated(st) ==
    \/ (PLAYER1 \in st.eliminated_players /\ PLAYER3 \in st.eliminated_players)
    \/ (PLAYER2 \in st.eliminated_players /\ PLAYER4 \in st.eliminated_players)

\* GameLogic.skip_turn entering a record of the skipped turn in the history
skip_turn_recorded(st) ==
    IF st.game_state # "PLAYING" THEN [st |-> st, result |-> FALSE]
    ELSE [st |-> [_next_turn(st) EXCEPT !.history =
                     Append(@, [turn |-> Len(@) + 1,
                                player_faction |-> faction_map[st.current_player],
                                piece_id |-> <<0, 0>>, from_local |-> <<0, 0>>,
                                to_local |-> <<0, 0>>, outcome |-> "move",
                                defender_piece_id |-> <<0, 0>>,
                                dead_piece_ids |-> <<>>])],
          result |-> TRUE]

skip_turn(st) ==
    IF st.game_state # "PLAYING" THEN [st |-> st, result |-> FALSE]
    ELSE [st |-> _next_turn(st), result |-> TRUE]

\* GameLogic.surrender without its own end-of-game test
surrender_without_finish(st) ==
    IF st.game_state # "PLAYING" THEN [st |-> st, result |-> FALSE]
    ELSE [st |-> _next_turn(_ensure_elimination_status(
                     [st EXCEPT !.board = clear_pieces_of(@, st.current_player),
                                !.eliminated_players = @ \cup {st.current_player}])),
          result |-> TRUE]

surrender(st) ==
    IF st.game_state # "PLAYING" THEN [st |-> st, result |-> FALSE]
    ELSE LET loser == st.current_player
             finish(st2) ==
                 IF is_game_over(st2.board) \/ team_eliminated(st2)
                 THEN [st |-> [st2 EXCEPT !.game_state = "FINISHED"], result |-> TRUE]
                 ELSE [st |-> _next_turn(st2), result |-> TRUE]
         IN  finish(_ensure_elimination_status(
                        [st EXCEPT !.board = clear_pieces_of(@, loser),
                                   !.eliminated_players = @ \cup {loser}]))

NoId == <<0, 0>>

\* GameLogic.move_piece from the call of Board.move_piece on; moved is what
\* that call returned and did to the board
complete_move(st, from_pos, to_pos, moved) ==
    IF ~moved.ok THEN [st |-> st, result |-> FALSE]
    ELSE
        LET pre_to_occupied == st.board[to_pos] # NoPiece
            defender_flag_owner ==
                IF pre_to_occupied /\ is_flag(st.board[to_pos])
                THEN st.board[to_pos].player ELSE NoArea
            defender_piece_id ==
                IF pre_to_occupied THEN st.board[to_pos].piece_id ELSE NoId
            attacker_player == st.board[from_pos].player
            attacker_piece_id == st.board[from_pos].piece_id
            post == moved.board[to_pos]
            outcome ==
                IF defender_piece_id = NoId THEN "move"
                ELSE IF post # NoPiece /\ post.piece_id = attacker_piece_id
                     THEN "attack_attacker_wins"
                ELSE IF post # NoPiece /\ post.piece_id = defender_piece_id
                     THEN "attack_defender_wins"
                ELSE "attack_both_die"
            dead_ids ==
                CASE outcome = "move" -> <<>>
                  [] outcome = "attack_attacker_wins" -> <<defender_piece_id>>
                  [] outcome = "attack_defender_wins" -> <<attacker_piece_id>>
                  [] outcome = "attack_both_die" -> <<attacker_piece_id, defender_piece_id>>
            record ==
                [turn |-> Len(st.history) + 1,
                 player_faction |-> faction_map[attacker_player],
                 piece_id |-> attacker_piece_id,
                 from_local |-> _get_local_coords(from_pos, attacker_player),
                 to_local |-> _get_local_coords(to_pos, attacker_player),
                 outcome |-> outcome,
                 defender_piece_id |-> defender_piece_id,
                 dead_piece_ids |-> dead_ids]
            flag_taken == /\ defender_flag_owner # NoArea
                          /\ (post = NoPiece \/ ~is_flag(post))
            finish(st2) ==
                [st |-> [(IF is_game_over(st2.board) \/ team_eliminated(st2)
                          THEN [st2 EXCEPT !.game_state = "FINISHED"]
                          ELSE _next_turn(st2))
                            EXCEPT !.history = Append(@, record)],
                 result |-> TRUE]
        IN  finish(_ensure_elimination_status(
                       IF flag_taken
                       THEN [st EXCEPT !.board = clear_pieces_of(moved.board,
                                                                 defender_flag_owner),
                                       !.eliminated_players = @ \cup {defender_flag_owner}]
                       ELSE [st EXCEPT !.board = moved.board]))

\* GameLogic.move_piece without the test that the piece is the current seat's
move_piece_any_owner(st, from_pos, to_pos) ==
    IF st.game_state # "PLAYING" THEN [st |-> st, result |-> FALSE]
    ELSE IF from_pos \notin Cells \/ st.board[from_pos] = NoPiece
         THEN [st |-> st, result |-> FALSE]
    ELSE complete_move(st, from_pos, to_pos, Board_move_piece(st.board, from_pos, to_pos))

move_piece(st, from_pos, to_pos) ==
    IF st.game_state # "PLAYING" THEN [st |-> st, result |-> FALSE]
    ELSE IF from_pos \notin Cells \/ st.board[from_pos] = NoPiece
         THEN [st |-> st, result |-> FALSE]
    ELSE IF ~testing_mode /\ st.board[from_pos].player # st.current_player
         THEN [st |-> st, result |-> FALSE]
    ELSE complete_move(st, from_pos, to_pos, Board_move_piece(st.board, from_pos, to_pos))


(***************************************************************************)
(* game/game_logic.py : the Setup phase                                    *)
(***************************************************************************)
_is_first_row(position, player) == _get_local_coords(position, player)[1] = 1

_is_last_two_rows(position, player) == _get_local_coords(position, player)[1] \in {5, 6}

\* can_place_piece without the rules for Bomb, Mine and Flag
can_place_piece_any_kind(st, position, piece) ==
    IF position \notin Cells \/ st.board[position] # NoPiece THEN FALSE
    ELSE IF player_area(position) # piece.player THEN FALSE
    ELSE cell_type[position] # "CAMP"

can_place_piece(st, position, piece) ==
    IF position \notin Cells \/ st.board[position] # NoPiece THEN FALSE
    ELSE IF player_area(position) # piece.player THEN FALSE
    ELSE IF cell_type[position] = "CAMP" THEN FALSE
    ELSE IF piece.piece_type = "BOMB" THEN ~_is_first_row(position, piece.player)
    ELSE IF piece.piece_type = "MINE" THEN _is_last_two_rows(position, piece.player)
    ELSE IF piece.piece_type = "FLAG" THEN cell_type[position] = "HEADQUARTERS"
    ELSE TRUE

place_piece(st, position, piece) ==
    IF st.game_state # "SETUP" THEN [st |-> st, result |-> FALSE]
    ELSE IF ~can_place_piece(st, position, piece) THEN [st |-> st, result |-> FALSE]
    ELSE [st |-> [st EXCEPT !.board[position] =
                                IF testing_mode THEN [piece EXCEPT !.visible = TRUE]
                                ELSE piece],
          result |-> TRUE]

\* the layout rules for a piece on a cell, whatever stands there
can_piece_stand_at(piece, position) ==
    IF position \notin Cells THEN FALSE
    ELSE IF player_area(position) # piece.player THEN FALSE
    ELSE IF cell_type[position] = "CAMP" THEN FALSE
    ELSE IF piece.piece_type = "BOMB" THEN ~_is_first_row(position, piece.player)
    ELSE IF piece.piece_type = "MINE" THEN _is_last_two_rows(position, piece.player)
    ELSE IF piece.piece_type = "FLAG" THEN cell_type[position] = "HEADQUARTERS"
    ELSE cell_type[position] # "HEADQUARTERS"

swap_setup_positions(st, from_pos, to_pos) ==
    IF st.game_state # "SETUP" THEN [st |-> st, result |-> FALSE]
    ELSE IF from_pos \notin Cells \/ to_pos \notin Cells THEN [st |-> st, result |-> FALSE]
    ELSE IF st.board[from_pos] = NoPiece THEN [st |-> st, result |-> FALSE]
    ELSE
        LET piece_a == st.board[from_pos]
            piece_b == st.board[to_pos]
        IN  IF ~testing_mode /\ piece_a.player # st.current_player
            THEN [st |-> st, result |-> FALSE]
            ELSE IF player_area(to_pos) # piece_a.player THEN [st |-> st, result |-> FALSE]
            ELSE IF piece_b = NoPiece THEN
                IF ~can_piece_stand_at(piece_a, to_pos) THEN [st |-> st, result |-> FALSE]
                ELSE [st |-> [st EXCEPT !.board[from_pos] = NoPiece,
                                        !.board[to_pos] = piece_a],
                      result |-> TRUE]
            ELSE IF \/ player_area(to_pos) # piece_b.player
                    \/ player_area(from_pos) # piece_a.player
                 THEN [st |-> st, result |-> FALSE]
            ELSE IF ~(/\ can_piece_stand_at(piece_a, to_pos)
                      /\ can_piece_stand_at(piece_b, from_pos))
                 THEN [st |-> st, result |-> FALSE]
            ELSE [st |-> [st EXCEPT !.board[from_pos] = piece_b,
                                    !.board[to_pos] = piece_a],
                  result |-> TRUE]

\* NoPos stands for None
_find_global_by_local(player, local_row, local_col) ==
    LET found(matches) == IF matches = {} THEN NoPos ELSE CHOOSE pos \in matches : TRUE
    IN  found({pos \in Cells : /\ player_area(pos) = player
                               /\ cell_type[pos] # "CAMP"
                               /\ _get_local_coords(pos, player) = <<local_row, local_col>>})

\* row.ljust(n, dot)
ljust(row, n) == row \o [i \in 1..(n - Len(row)) |-> "dot"]

\* the two nested loops of apply_formation from (r_idx, c_idx) on
RECURSIVE apply_formation_loop(_, _, _, _, _)
apply_formation_loop(st, player, grid, r_idx, c_idx) ==
    IF r_idx > Len(grid) THEN [st |-> st, result |-> TRUE]
    ELSE IF c_idx > Len(ljust(grid[r_idx], 5))
         THEN apply_formation_loop(st, player, grid, r_idx + 1, 1)
    ELSE
        LET ch == ljust(grid[r_idx], 5)[c_idx]
            pt == char_to_piece_type(ch)
            target == _find_global_by_local(player, r_idx, c_idx)
            placed(p) == IF ~p.result THEN [st |-> p.st, result |-> FALSE]
                         ELSE apply_formation_loop(p.st, player, grid, r_idx, c_idx + 1)
        IN  IF ch \in {"dot", "space", "ellipsis", "period"} \/ pt = "NONE"
            THEN apply_formation_loop(st, player, grid, r_idx, c_idx + 1)
            ELSE IF target = NoPos THEN [st |-> st, result |-> FALSE]
            ELSE placed(place_piece(st, target, Piece(pt, player, testing_mode, 0, NoId)))

apply_formation(st, fm, player, name) ==
    IF ~has_formation(fm, name) THEN [st |-> st, result |-> FALSE]
    ELSE apply_formation_loop(st, player, fm[name], 1, 1)

_clear_player_pieces(st, player) ==
    [st EXCEPT !.board = clear_pieces_of(@, player), !.setup_complete[player] = FALSE]

\* name is the template random.choice picks; the result None (the phase is
\* not Setup) is written FALSE
auto_layout_player(st, fm, player, name) ==
    IF st.game_state # "SETUP" THEN [st |-> st, result |-> FALSE]
    ELSE IF list_formations(fm) = {}
         THEN [st |-> _clear_player_pieces(st, player), result |-> FALSE]
    ELSE
        LET done(r) == IF r.result
                       THEN [st |-> [r.st EXCEPT !.setup_complete[player] = TRUE],
                             result |-> TRUE]
                       ELSE [st |-> r.st, result |-> FALSE]
        IN  done(apply_formation(_clear_player_pieces(st, player), fm, player, name))

\* ids are <<seat, n>> for "<faction>_<n>", n counting the seat's pieces on the
\* cells of its own setup area in the order of their local coordinates
_assign_piece_ids(b) ==
    [pos \in Cells |->
        IF /\ b[pos] # NoPiece
           /\ player_area(pos) = b[pos].player
           /\ cell_type[pos] # "CAMP"
        THEN LET p == b[pos].player
                 key(q) == _get_local_coords(q, p)
                 before == {q \in Cells :
                              /\ player_area(q) = p /\ cell_type[q] # "CAMP"
                              /\ b[q] # NoPiece /\ b[q].player = p
                              /\ \/ key(q)[1] < key(pos)[1]
                                 \/ key(q)[1] = key(pos)[1] /\ key(q)[2] < key(pos)[2]}
             IN  [b[pos] EXCEPT !.piece_id = <<p, Cardinality(before) + 1>>]
        ELSE b[pos]]

\* start_game without the test of setup_complete
start_game_unchecked(st, first) ==
    [st |-> [st EXCEPT !.game_state = "PLAYING",
                       !.current_player = first,
                       !.eliminated_players = {},
                       !.history = <<>>,
                       !.board = _assign_piece_ids(@)],
     result |-> TRUE]

\* first is the seat random.choice picks to move first
start_game(st, first) ==
    IF \E p \in Player : ~st.setup_complete[p] THEN [st |-> st, result |-> FALSE]
    ELSE [st |-> [st EXCEPT !.game_state = "PLAYING",
                            !.current_player = first,
                            !.eliminated_players = {},
                            !.history = <<>>,
                            !.board = _assign_piece_ids(@)],
          result |-> TRUE]


(***************************************************************************)
(* server/game_server.py : the public state sent to a viewer.  viewer is a *)
(* seat, or NoArea for None.                                               *)
(***************************************************************************)
\* can_see that lets a seat see the pieces of its partner too
can_see_allies(piece, viewer) ==
    \/ testing_mode
    \/ piece.visible
    \/ (viewer # NoArea /\ _are_allied(piece.player, viewer))

\* can_see of get_public_game_state for the piece of an occupied cell
can_see(piece, viewer) ==
    \/ testing_mode
    \/ piece.visible
    \/ (viewer # NoArea /\ piece.player = viewer)

\* the entry of "board"."pieces" for an occupied cell; the key piece_type is
\* left out ("HIDDEN") when the viewer cannot see the piece
piece_info(piece, viewer) ==
    [player_id |-> piece.player, piece_id |-> piece.piece_id,
     piece_type |-> IF can_see(piece, viewer) THEN piece.piece_type ELSE "HIDDEN"]

\* "board"."pieces" of get_public_game_state(viewer), as a set
get_public_game_state(st, viewer) ==
    {[row |-> pos[1], col |-> pos[2], piece |-> piece_info(st.board[pos], viewer)] :
        pos \in {c \in Cells : st.board[c] # NoPiece}}

\* MoveRecord.to_dict: the key outcome is left out ("ABSENT") for a plain
\* move; the time stamp is not modelled
to_dict(rec) ==
    [player_faction |-> rec.player_faction, piece_id |-> rec.piece_id,
     to |-> rec.to_local,
     outcome |-> IF rec.outcome # "move" THEN rec.outcome ELSE "ABSENT"]

\* the dictionary get_public_game_state(viewer) returns, without the keys
\* that do not come from the GameLogic object (names, teams, personas,
\* which seats are human)
public_game_state(st, viewer) ==
    [state |-> st.game_state,
     current_player |-> st.current_player,
     current_player_faction |-> faction_map[st.current_player],
     setup_complete |-> st.setup_complete,
     eliminated_players |-> st.eliminated_players,
     board |-> [rows |-> 17, cols |-> 17,
                pieces |-> get_public_game_state(st, viewer)],
     history |-> [i \in 1..Len(st.history) |-> to_dict(st.history[i])]]


(***************************************************************************)
(* server/perspectives/manager.py : the views of the seats West, North and *)
(* East.  A PieceInference is [possible, excluded, last_update_turn] (the  *)
(* notes are left out), the inferences of a seat are a function from piece *)
(* ids to PieceInference, and a face is the name of a kind.                *)
(***************************************************************************)
PerspectiveSeats == {PLAYER2, PLAYER3, PLAYER4}

POWER_RANK ==
    [pt \in PieceType |->
        CASE pt = "COMMANDER" -> 10 [] pt = "GENERAL" -> 9 [] pt = "DIVISION" -> 8
          [] pt = "BRIGADE" -> 7 [] pt = "REGIMENT" -> 6 [] pt = "BATTALION" -> 5
          [] pt = "COMPANY" -> 4 [] pt = "PLATOON" -> 3 [] pt = "ENGINEER" -> 2
          [] pt = "BOMB" -> 1 [] pt = "MINE" -> 0 [] pt = "FLAG" -> -1]

\* PieceInference()
NoInference == [possible |-> {}, excluded |-> {}, last_update_turn |-> 0]

_face_to_type(face_str) == IF face_str \in PieceType THEN face_str ELSE "PLATOON"

_commander_dead(b, owner) ==
    ~\E pos \in Cells : /\ b[pos] # NoPiece /\ b[pos].player = owner
                        /\ b[pos].piece_type = "COMMANDER"

\* piece id -> kind of the viewer's pieces on the board
_collect_own_types(b, viewer) ==
    LET own == {pos \in Cells : b[pos] # NoPiece /\ b[pos].player = viewer
                                /\ b[pos].piece_id # NoId}
    IN  [pid \in {b[pos].piece_id : pos \in own} |->
            b[CHOOSE pos \in own : b[pos].piece_id = pid].piece_type]

\* faces_public as refresh leaves it: the viewer's own kinds, and the Flags
\* of the seats that have no Commander
faces_public(b, viewer) ==
    LET flags == {pos \in Cells : /\ b[pos] # NoPiece /\ is_flag(b[pos])
                                  /\ _commander_dead(b, b[pos].player)}
        own == _collect_own_types(b, viewer)
    IN  [pid \in DOMAIN own \cup {b[pos].piece_id : pos \in flags} |->
            IF \E pos \in flags : b[pos].piece_id = pid THEN "FLAG" ELSE own[pid]]

\* PerspectiveManager._is_last_two_rows
pm_is_last_two_rows(owner, global_pos) ==
    _get_local_coords(global_pos, owner)[1] \in {5, 6}

\* (0, 0) when the seat's own area has no such cell
_to_global_coords(seat, local_row, local_col) ==
    LET found(pos) == IF pos = NoPos THEN <<0, 0>> ELSE pos
    IN  found(_find_global_by_local(seat, local_row, local_col))

\* the end of both updates: possible without what is excluded
cleaned(inf) ==
    IF inf.possible # {} THEN [inf EXCEPT !.possible = @ \ inf.excluded] ELSE inf

\* the start of both updates that leaves an empty set of possible kinds empty
started_without_kinds(inf, piece_id, moved_ids, turn) ==
    [possible |-> inf.possible,
     excluded |-> inf.excluded \cup (IF piece_id # NoId /\ piece_id \in moved_ids
                                     THEN {"MINE", "FLAG"} ELSE {}),
     last_update_turn |-> turn]

\* the start of both updates: the turn, all kinds when none is possible, and
\* Mine and Flag excluded for a piece that has moved
started(inf, piece_id, moved_ids, turn) ==
    [possible |-> IF inf.possible = {} THEN PieceType ELSE inf.possible,
     excluded |-> inf.excluded \cup (IF piece_id # NoId /\ piece_id \in moved_ids
                                     THEN {"MINE", "FLAG"} ELSE {}),
     last_update_turn |-> turn]

\* the kinds of the power range given
ranked(from_power, to_power) ==
    {pt \in PieceType : POWER_RANK[pt] >= from_power /\ POWER_RANK[pt] <= to_power}

\* the viewer attacked: what it learns about the defender
_update_constraints_for_defender(b, inf, attacker_face, outcome, defender_id, moved_ids, turn, defender_owner, in_headquarters, in_defender_last_two_rows) ==
    LET atk_pt == _face_to_type(attacker_face)
        off_last_rows ==
            /\ defender_owner # NoArea
            /\ \E pos \in Cells : /\ b[pos] # NoPiece /\ b[pos].piece_id = defender_id
                                  /\ ~pm_is_last_two_rows(defender_owner, pos)
        placed(inf1) ==
            IF off_last_rows THEN [inf1 EXCEPT !.excluded = @ \cup {"MINE"}] ELSE inf1
        fought(inf2) ==
            IF outcome = "attack_both_die" THEN
                IF atk_pt = "BOMB"
                THEN [inf2 EXCEPT
                        !.possible = @ \cup (IF in_headquarters THEN {"FLAG"} ELSE {})
                                       \cup (IF in_defender_last_two_rows THEN {"MINE"}
                                             ELSE {}),
                        !.excluded = @ \cup (IF in_headquarters THEN {} ELSE {"FLAG"})]
                ELSE [inf2 EXCEPT !.possible = @ \cup {"BOMB", atk_pt},
                                  !.excluded = @ \cup {"MINE"}]
            ELSE IF outcome = "attack_defender_wins" THEN
                IF atk_pt = "ENGINEER"
                THEN [inf2 EXCEPT !.possible = @ \cup ranked(POWER_RANK[atk_pt], 10),
                                  !.excluded = @ \cup {"MINE", "BOMB"}]
                ELSE [inf2 EXCEPT !.possible = @ \cup ranked(POWER_RANK[atk_pt], 10)
                                                 \cup {"MINE"},
                                  !.excluded = @ \cup {"BOMB"}]
            ELSE IF outcome = "attack_attacker_wins" THEN
                IF atk_pt = "ENGINEER"
                THEN [inf2 EXCEPT !.possible = @ \cup ranked(-1, POWER_RANK[atk_pt])
                                                 \cup {"MINE"},
                                  !.excluded = @ \cup {"BOMB"}]
                ELSE [inf2 EXCEPT !.possible = @ \cup ranked(-1, POWER_RANK[atk_pt]),
                                  !.excluded = @ \cup {"MINE", "BOMB"}]
            ELSE inf2
    IN  cleaned(fought(placed(started(inf, defender_id, moved_ids, turn))))

\* the viewer was attacked: what it learns about the attacker
_update_constraints_for_attacker(inf, defender_face, outcome, attacker_id, moved_ids, turn) ==
    LET def_pt == _face_to_type(defender_face)
        fought(inf1) ==
            IF outcome = "attack_both_die" THEN
                IF def_pt = "BOMB" THEN [inf1 EXCEPT !.excluded = @ \cup {"FLAG"}]
                ELSE IF def_pt = "FLAG" THEN [inf1 EXCEPT !.possible = {"BOMB"}]
                ELSE [inf1 EXCEPT !.possible = @ \cup {"BOMB", def_pt},
                                  !.excluded = @ \cup {"MINE"}]
            ELSE IF outcome = "attack_attacker_wins" THEN
                [inf1 EXCEPT !.possible = @ \cup ranked(POWER_RANK[def_pt], 10)
                                            \cup (IF def_pt = "MINE" THEN {"ENGINEER"}
                                                  ELSE {})]
            ELSE IF outcome = "attack_defender_wins" THEN
                [inf1 EXCEPT !.possible = @ \cup ranked(-1, POWER_RANK[def_pt]),
                             !.excluded = @ \cup {"BOMB"}]
            ELSE inf1
    IN  cleaned(fought(started(inf, attacker_id, moved_ids, turn)))

\* sp.inferences.get(pid), a new PieceInference when there is none
inference_of(infs, pid) == IF pid \in DOMAIN infs THEN infs[pid] ELSE NoInference

\* sp.inferences[pid] = inf
with_inference(infs, pid, inf) ==
    [k \in DOMAIN infs \cup {pid} |-> IF k = pid THEN inf ELSE infs[k]]

\* the seat of a piece id, NoArea for no id
seat_of_id(pid) == pid[1]

\* the body of the loop over the records for one seat: the inferences of
\* the seat after the record rec
replay_record(st, seat, infs, moved_ids, own_types, rec) ==
    LET attacker_id == rec.piece_id
        defender_id == rec.defender_piece_id
        attacker_player ==
            IF \E p \in Player : faction_map[p] = rec.player_faction
            THEN CHOOSE p \in Player : faction_map[p] = rec.player_faction
            ELSE NoArea
        defender_player == seat_of_id(defender_id)
        dest == IF attacker_player = NoArea THEN <<0, 0>>
                ELSE _to_global_coords(attacker_player, rec.to_local[1], rec.to_local[2])
        in_headquarters ==
            attacker_player # NoArea /\ dest \in Cells /\ cell_type[dest] = "HEADQUARTERS"
        in_def_last_two_rows ==
            /\ attacker_player # NoArea /\ defender_player # NoArea
            /\ pm_is_last_two_rows(defender_player, dest)
    IN  IF attacker_player = seat THEN
            IF attacker_id \notin DOMAIN own_types THEN infs
            ELSE with_inference(infs, defender_id,
                    _update_constraints_for_defender(st.board,
                        inference_of(infs, defender_id), own_types[attacker_id],
                        rec.outcome, defender_id, moved_ids, rec.turn, defender_player,
                        in_headquarters, in_def_last_two_rows))
        ELSE IF defender_player = seat THEN
            IF defender_id \notin DOMAIN own_types THEN infs
            ELSE with_inference(infs, attacker_id,
                    _update_constraints_for_attacker(
                        inference_of(infs, attacker_id), own_types[defender_id],
                        rec.outcome, attacker_id, moved_ids, rec.turn))
        ELSE infs

RECURSIVE replay_records(_, _, _, _, _, _)
replay_records(st, seat, i, infs, moved_ids, own_types) ==
    IF i > Len(st.history) THEN infs
    ELSE replay_records(st, seat, i + 1,
            replay_record(st, seat, infs, moved_ids, own_types, st.history[i]),
            moved_ids, own_types)

\* the inferences of every seat after _rebuild_inferences
_rebuild_inferences(st) ==
    [seat \in PerspectiveSeats |->
        replay_records(st, seat, 1, <<>>,
                       {st.history[i].piece_id : i \in 1..Len(st.history)} \ {NoId},
                       _collect_own_types(st.board, seat))]

\* the views of the seats after refresh(gl)
refresh(st) ==
    [seat \in PerspectiveSeats |->
        [own_types |-> _collect_own_types(st.board, seat),
         faces_public |-> faces_public(st.board, seat),
         inferences |-> _rebuild_inferences(st)[seat]]]


(***************************************************************************)
(* The state machine.  board .. setup_complete are the fields of the       *)
(* GameLogic object; formations is the module-level dictionary FORMATIONS  *)
(* of game/formations.py; ret is the last API call with its arguments and  *)
(* return value; pre is the GameLogic object as that call found it; calls  *)
(* counts the API calls made so far.                                       *)
(***************************************************************************)
VARIABLES board, game_state, current_player, eliminated_players, history,
          setup_complete, formations, ret, pre, calls,
          _ai_worker_busy, _pending_dispatch, _pending_prev_player, threads,
          unserved, _ai_running, ai_task

\* the fields of the GameProcess object that the background dispatch uses,
\* the threads that are inside _start_background_dispatch or _run, whether a
\* dispatch request is still waiting for a scheduling pass to begin, the
\* field _ai_running of the GameServer object and the asyncio tasks of
\* GameServer.handle_ai_move
server_vars == <<_ai_worker_busy, _pending_dispatch, _pending_prev_player, threads,
                 unserved, _ai_running, ai_task>>

vars == <<board, game_state, current_player, eliminated_players, history,
          setup_complete, formations, ret, pre, calls, server_vars>>

\* bound on the number of worker threads; thread 0 is the thread that calls
\* on_game_started and on_turn_changed, threads 1.. are the threads that
\* _start_background_dispatch starts
MaxWorkers == 3

ThreadIds == 0..MaxWorkers

\* a thread outside _start_background_dispatch and _run: pc is the statement
\* it is to execute next, prev_player the argument of the call of
\* _start_background_dispatch it is in (in _run: the prev_player of the call
\* that started the thread), next_prev the local variable of _run
IdleThread == [pc |-> "idle", prev_player |-> NoArea, next_prev |-> NoArea]

\* the tasks of handle_ai_move: created counts the tasks that
\* _schedule_ai_if_needed created and that have not begun to run, pc is
\* "loop" while a task is suspended in the retry loop of handle_ai_move, and
\* cp is the local variable cp of that task
IdleTask == [pc |-> "idle", cp |-> NoArea, created |-> 0]

\* GameProcess.__init__ and GameServer.__init__; no thread and no task started
ServerStarts ==
    /\ ai_task = IdleTask
    /\ _ai_worker_busy = FALSE
    /\ _pending_dispatch = FALSE
    /\ _pending_prev_player = NoArea
    /\ threads = [t \in ThreadIds |-> IdleThread]
    /\ unserved = FALSE
    /\ _ai_running = FALSE

\* the GameLogic object in the current state
GL == [board |-> board, game_state |-> game_state, current_player |-> current_player,
       eliminated_players |-> eliminated_players, history |-> history,
       setup_complete |-> setup_complete]

\* the GameLogic object in the next state
GLnext == [board |-> board', game_state |-> game_state', current_player |-> current_player',
           eliminated_players |-> eliminated_players', history |-> history',
           setup_complete |-> setup_complete']

Becomes(st) ==
    /\ board' = st.board
    /\ game_state' = st.game_state
    /\ current_player' = st.current_player
    /\ eliminated_players' = st.eliminated_players
    /\ history' = st.history
    /\ setup_complete' = st.setup_complete

\* bounds on the number of API calls explored
MaxCalls == 2
MaxCombatCalls == 1

NoCall == [op |-> "none", from_pos |-> NoPos, to_pos |-> NoPos, result |-> FALSE]

MkBoard(entries) ==
    [pos \in Cells |-> IF \E e \in entries : e[1] = pos
                       THEN (CHOOSE e \in entries : e[1] = pos)[2]
                       ELSE NoPiece]

\* the Flag of a seat that has lost its Commander has been revealed
FlagsRevealed(entries) ==
    LET has_commander(p) ==
            \E e \in entries : e[2].player = p /\ e[2].piece_type = "COMMANDER"
    IN  {<<e[1], IF is_flag(e[2])
                 THEN [e[2] EXCEPT !.visible = ~has_commander(e[2].player)]
                 ELSE e[2]>> : e \in entries}

(***************************************************************************)
(* Mid-game positions the explored games start from.  Every seat still in  *)
(* the game keeps its Flag on one of its Headquarters; Mines stand in      *)
(* their owner's last two rows; a seat in eliminated_players has no piece; *)
(* a Flag is visible exactly when its seat has lost its Commander.         *)
(***************************************************************************)
HomePieces ==
    {<<<<16, 7>>, Piece("FLAG", PLAYER1, TRUE, 0, <<PLAYER1, 1>>)>>,
     <<<<7, 0>>,  Piece("FLAG", PLAYER2, TRUE, 0, <<PLAYER2, 1>>)>>,
     <<<<9, 0>>,  Piece("PLATOON", PLAYER2, FALSE, 0, <<PLAYER2, 2>>)>>,
     <<<<0, 7>>,  Piece("FLAG", PLAYER3, TRUE, 0, <<PLAYER3, 1>>)>>,
     <<<<3, 7>>,  Piece("PLATOON", PLAYER3, FALSE, 0, <<PLAYER3, 2>>)>>,
     <<<<7, 16>>, Piece("FLAG", PLAYER4, TRUE, 0, <<PLAYER4, 1>>)>>,
     <<<<8, 12>>, Piece("PLATOON", PLAYER4, FALSE, 0, <<PLAYER4, 2>>)>>}

\* a South piece of kind k1 stands inside West's area, next to West's Flag
\* (7,0), to a West piece of kind k2 (8,1) and to a West Platoon in a Camp (7,2)
CombatPieces(k1, k2) ==
    HomePieces \cup
    {<<<<7, 1>>, Piece(k1, PLAYER1, FALSE, 0, <<PLAYER1, 2>>)>>,
     <<<<8, 1>>, Piece(k2, PLAYER2, FALSE, 0, <<PLAYER2, 3>>)>>,
     <<<<7, 2>>, Piece("PLATOON", PLAYER2, FALSE, 0, <<PLAYER2, 4>>)>>}

\* a second free piece of South, on its own front row
ReservePieces ==
    {<<<<11, 10>>, Piece("COMPANY", PLAYER1, FALSE, 0, <<PLAYER1, 3>>)>>}

\* every seat has one free piece near its own front
TurnPieces ==
    HomePieces \cup
    {<<<<11, 8>>, Piece("REGIMENT", PLAYER1, FALSE, 0, <<PLAYER1, 2>>)>>,
     <<<<8, 4>>,  Piece("PLATOON", PLAYER2, FALSE, 0, <<PLAYER2, 3>>)>>}

WithoutSeats(entries, seats) == {e \in entries : e[2].player \notin seats}

MovableKinds == PieceType \ {"MINE", "FLAG"}
DefenderKinds == PieceType \ {"FLAG"}

\* eliminated sets that leave both alliances in the game
EliminatedChoices ==
    {e \in SUBSET Player : ~({PLAYER1, PLAYER3} \subseteq e) /\ ~({PLAYER2, PLAYER4} \subseteq e)}

Scene(entries, elim, cur) ==
    [board |-> MkBoard(FlagsRevealed(WithoutSeats(entries, elim))),
     game_state |-> "PLAYING",
     current_player |-> cur, eliminated_players |-> elim, history |-> <<>>,
     setup_complete |-> [p \in Player |-> TRUE]]

\* a position of a game in progress is left as it is by the elimination check
InPlay(st) ==
    /\ st.current_player \notin st.eliminated_players
    /\ _ensure_elimination_status(st) = st
    /\ ~(is_game_over(st.board) \/ team_eliminated(st))

\* the same pieces after earlier battles: the South piece on (7,1) has two
\* kills, the West piece on (8,1) three, every other piece but the Flags one
VeteranPieces(k1, k2) ==
    {<<e[1], [e[2] EXCEPT !.kill_count = IF e[1] = <<7, 1>> THEN 2
                                         ELSE IF e[1] = <<8, 1>> THEN 3
                                         ELSE IF is_flag(e[2]) THEN 0 ELSE 1]>> :
        e \in CombatPieces(k1, k2) \cup ReservePieces}

\* South to move, with and without a second free piece, and with earlier kills
CombatScenes ==
    {Scene(CombatPieces(k1, k2) \cup reserve, {}, PLAYER1) :
        k1 \in MovableKinds, k2 \in DefenderKinds, reserve \in {{}, ReservePieces}}
    \cup {Scene(VeteranPieces(k1, k2), {}, PLAYER1) :
              k1 \in MovableKinds, k2 \in DefenderKinds}

TurnScenes ==
    {Scene(TurnPieces, elim, cur) : elim \in EliminatedChoices, cur \in Player}

MixedScenes ==
    {Scene(CombatPieces(k[1], k[2]), elim, cur) :
        k \in {<<"REGIMENT", "COMMANDER">>, <<"ENGINEER", "MINE">>, <<"COMMANDER", "BOMB">>},
        elim \in {{}, {PLAYER3}}, cur \in {PLAYER1, PLAYER2}}

\* the GameLogic object is st, no call has been made yet
Starts(st) ==
    /\ board = st.board
    /\ game_state = st.game_state
    /\ current_player = st.current_player
    /\ eliminated_players = st.eliminated_players
    /\ history = st.history
    /\ setup_complete = st.setup_complete
    /\ formations = FORMATIONS
    /\ ret = NoCall
    /\ pre = st
    /\ calls = 0
    /\ ServerStarts

StartFrom(scenes) == \E st \in scenes : InPlay(st) /\ Starts(st)

Init == StartFrom(TurnScenes \cup MixedScenes)
InitCombat == StartFrom(CombatScenes)

\* destinations has_player_any_legal_move and the callers of can_move look at
candidate_destinations(b, from_pos) ==
    get_adjacent_positions(from_pos)
    \cup (IF cell_type[from_pos] # "RAILWAY" THEN {}
          ELSE IF is_engineer(b[from_pos])
          THEN get_railway_connected_positions(b, from_pos)
          ELSE get_railway_straight_reachable_positions(b, from_pos))

\* the legal moves of the seat to move
LegalMoves ==
    IF game_state # "PLAYING" THEN {}
    ELSE UNION {{<<from_pos, to_pos>> :
                    to_pos \in {t \in candidate_destinations(board, from_pos) :
                                    Board_can_move(board, from_pos, t)}} :
                from_pos \in {c \in Cells : /\ board[c] # NoPiece
                                            /\ board[c].player = current_player}}

\* calls that are refused in some or all positions: an immovable origin, an
\* origin on a Headquarters, an occupied Camp as destination, another seat's
\* piece, an empty origin, positions that are no cells of the board
ProbeMoves ==
    {<<<<16, 7>>, <<15, 7>>>>, <<<<9, 0>>, <<9, 1>>>>, <<<<7, 1>>, <<7, 2>>>>,
     <<<<8, 1>>, <<8, 2>>>>, <<<<3, 7>>, <<17, 7>>>>, <<<<7, 7>>, <<8, 8>>>>,
     <<<<-1, 6>>, <<0, 6>>>>, <<<<8, 8>>, <<8, 10>>>>}

\* the call op(from_pos, to_pos) returns r.result and leaves the object as r.st
Call(op, from_pos, to_pos, r) ==
    /\ Becomes(r.st)
    /\ ret' = [op |-> op, from_pos |-> from_pos, to_pos |-> to_pos, result |-> r.result]
    /\ pre' = GL
    /\ calls' = calls + 1
    /\ UNCHANGED <<formations, server_vars>>

DoMovePiece ==
    \E m \in LegalMoves \cup ProbeMoves :
        Call("move_piece", m[1], m[2], move_piece(GL, m[1], m[2]))

DoSkipTurn == Call("skip_turn", NoPos, NoPos, skip_turn(GL))

DoSurrender == Call("surrender", NoPos, NoPos, surrender(GL))

MovePiece == calls < MaxCalls /\ DoMovePiece
SkipTurn == calls < MaxCalls /\ DoSkipTurn
Surrender == calls < MaxCalls /\ DoSurrender

Next == MovePiece \/ SkipTurn \/ Surrender
Spec == Init /\ [][Next]_vars

CombatMovePiece == calls < MaxCombatCalls /\ DoMovePiece
NextCombat == CombatMovePiece
SpecCombat == InitCombat /\ [][NextCombat]_vars

(***************************************************************************)
(* The Setup phase: a new GameLogic object, the calls of the Setup phase,  *)
(* start_game and the first skip_turn calls.                               *)
(***************************************************************************)
\* bound on the number of API calls explored from a new object
MaxSetupCalls == 4
\* random.choice of a template is explored over the first MaxChoices built-in
\* templates and the registered ones
MaxChoices == 1

BuiltinChoices ==
    {formation_order[i] : i \in {k \in 1..Len(formation_order) : k <= MaxChoices}}

CustomNames == {"custom"}

\* grids a host registers: a Bomb on the front row behind a Division; a lone
\* Flag on a Headquarters, written with a blank and two full stops; five rows
CustomGrids ==
    {<<<<"dot", "shi", "zha">>, <<>>, <<>>, <<>>, <<>>, <<>>>>,
     <<<<>>, <<>>, <<>>, <<>>, <<>>, <<"space", "period", "period", "qi">>>>,
     <<<<"shi">>, <<>>, <<>>, <<>>, <<>>>>}

\* GameLogic.__init__ before auto_layout_all_players
NewGame ==
    [board |-> [pos \in Cells |-> NoPiece], game_state |-> "SETUP",
     current_player |-> PLAYER1, eliminated_players |-> {}, history |-> <<>>,
     setup_complete |-> [p \in Player |-> FALSE]]

\* names[p] is the template random.choice picks for seat p
RECURSIVE auto_layout_all_players(_, _, _, _)
auto_layout_all_players(st, fm, names, i) ==
    IF i > Len(player_iteration_order) THEN st
    ELSE auto_layout_all_players(
             auto_layout_player(st, fm, player_iteration_order[i],
                                names[player_iteration_order[i]]).st,
             fm, names, i + 1)

\* GameLogic.reset_game: a new board in the Setup phase, laid out again;
\* names[p] is the template random.choice picks for seat p
reset_game(st, fm, names) == auto_layout_all_players(NewGame, fm, names, 1)

InitSetup ==
    \E names \in [Player -> BuiltinChoices] :
        Starts(auto_layout_all_players(NewGame, FORMATIONS, names, 1))

RegisterFormation ==
    /\ calls < MaxSetupCalls
    /\ \E name \in CustomNames, grid \in CustomGrids :
        /\ formations' = register_formation(formations, name, grid).fm
        /\ ret' = [op |-> "register_formation", from_pos |-> NoPos, to_pos |-> NoPos,
                   result |-> register_formation(formations, name, grid).result]
    /\ pre' = GL
    /\ calls' = calls + 1
    /\ UNCHANGED <<server_vars, board, game_state, current_player, eliminated_players, history,
                   setup_complete>>

AutoLayoutPlayer ==
    /\ calls < MaxSetupCalls
    /\ \E player \in Player,
          name \in list_formations(formations) \cap (BuiltinChoices \cup CustomNames) :
        Call("auto_layout_player", NoPos, NoPos,
             auto_layout_player(GL, formations, player, name))

ApplyFormation ==
    /\ calls < MaxSetupCalls
    /\ \E player \in Player, name \in BuiltinChoices \cup CustomNames :
        Call("apply_formation", NoPos, NoPos, apply_formation(GL, formations, player, name))

\* an Engineer for a front-row cell, for a Camp and for another seat's area;
\* a Bomb for the front row
PlaceProbes ==
    {<<<<11, 6>>, Piece("ENGINEER", PLAYER1, FALSE, 0, NoId)>>,
     <<<<12, 7>>, Piece("ENGINEER", PLAYER1, FALSE, 0, NoId)>>,
     <<<<6, 5>>, Piece("ENGINEER", PLAYER1, FALSE, 0, NoId)>>,
     <<<<11, 8>>, Piece("BOMB", PLAYER1, FALSE, 0, NoId)>>}

PlacePiece ==
    /\ calls < MaxSetupCalls
    /\ \E probe \in PlaceProbes :
        Call("place_piece", probe[1], NoPos, place_piece(GL, probe[1], probe[2]))

StartGame ==
    /\ calls < MaxSetupCalls
    /\ \E first \in Player : Call("start_game", NoPos, NoPos, start_game(GL, first))

OpeningSkipTurn == calls < MaxSetupCalls /\ DoSkipTurn

NextSetup ==
    \/ RegisterFormation
    \/ AutoLayoutPlayer
    \/ ApplyFormation
    \/ PlacePiece
    \/ StartGame
    \/ OpeningSkipTurn

SpecSetup == InitSetup /\ [][NextSetup]_vars

(***************************************************************************)
(* Laying out: the calls that put, move and replace pieces in the Setup    *)
(* phase, with every built-in template.  The explored objects are a new    *)
(* GameLogic object and the same object after a host has registered a      *)
(* template of its own and auto_layout_player has picked it for South,     *)
(* which leaves South's area partly or wholly empty.                       *)
(***************************************************************************)
\* bound on the number of layout calls explored
MaxLayoutCalls == 2

\* a grid whose first piece is a Bomb on the front row: laying it out fails at
\* once and leaves the area empty
EmptyingGrid == <<<<"zha">>, <<>>, <<>>, <<>>, <<>>, <<>>>>

LayoutGrids == CustomGrids \cup {EmptyingGrid}

\* the GameLogic object is st, the registry is fm, no call has been made yet
StartsWith(st, fm) ==
    /\ board = st.board
    /\ game_state = st.game_state
    /\ current_player = st.current_player
    /\ eliminated_players = st.eliminated_players
    /\ history = st.history
    /\ setup_complete = st.setup_complete
    /\ formations = fm
    /\ ret = NoCall
    /\ pre = st
    /\ calls = 0
    /\ ServerStarts

\* GameLogic() with random.choice picking the first built-in template
FirstLayout ==
    auto_layout_all_players(NewGame, FORMATIONS, [p \in Player |-> formation_order[1]], 1)

InitLayout ==
    \/ StartsWith(FirstLayout, FORMATIONS)
    \/ \E grid \in LayoutGrids :
          /\ register_formation(FORMATIONS, "custom", grid).result
          /\ StartsWith(auto_layout_player(FirstLayout,
                                           register_formation(FORMATIONS, "custom", grid).fm,
                                           PLAYER1, "custom").st,
                        register_formation(FORMATIONS, "custom", grid).fm)

\* the call op(arg, from_pos, to_pos) returns r.result and leaves the object as r.st
CallWith(op, arg, from_pos, to_pos, r) ==
    /\ Becomes(r.st)
    /\ ret' = [op |-> op, arg |-> arg, from_pos |-> from_pos, to_pos |-> to_pos,
               result |-> r.result]
    /\ pre' = GL
    /\ calls' = calls + 1
    /\ UNCHANGED <<formations, server_vars>>

DoAutoLayoutPlayer(player, name) ==
    CallWith("auto_layout_player", <<player, name>>, NoPos, NoPos,
             auto_layout_player(GL, formations, player, name))

DoApplyFormation(player, name) ==
    CallWith("apply_formation", <<player, name>>, NoPos, NoPos,
             apply_formation(GL, formations, player, name))

LayoutAutoLayoutPlayer ==
    /\ calls < MaxLayoutCalls
    /\ \E player \in Player,
          name \in list_formations(formations) \cap (BuiltinChoices \cup CustomNames) :
        DoAutoLayoutPlayer(player, name)

LayoutApplyFormation ==
    /\ calls < MaxLayoutCalls
    /\ \E player \in Player, name \in BuiltinChoices \cup CustomNames :
        DoApplyFormation(player, name)

\* South pieces offered to place_piece: a Bomb for the front row and for the
\* second row, a Mine for the third and the fifth row, a Flag for a plain cell
\* and for a Headquarters, an Engineer for a Headquarters, for a Camp and for
\* West's area
LayoutPlaceProbes ==
    {<<<<11, 8>>, "BOMB">>, <<<<12, 8>>, "BOMB">>, <<<<13, 6>>, "MINE">>,
     <<<<15, 6>>, "MINE">>, <<<<15, 7>>, "FLAG">>, <<<<16, 9>>, "FLAG">>,
     <<<<16, 7>>, "ENGINEER">>, <<<<12, 7>>, "ENGINEER">>, <<<<6, 5>>, "ENGINEER">>}

LayoutPlacePiece ==
    /\ calls < MaxLayoutCalls
    /\ \E probe \in LayoutPlaceProbes :
        CallWith("place_piece", probe[2], probe[1], NoPos,
                 place_piece(GL, probe[1], Piece(probe[2], PLAYER1, FALSE, 0, NoId)))

\* pairs of cells offered to swap_setup_positions: inside South's front row;
\* a Bomb towards the front row; a Mine towards the fourth row; the two
\* Headquarters; a Headquarters and the cell between them; the Flag's cell
\* and that cell; towards a Camp; towards the centre; inside West's area;
\* from the front row to a Headquarters and to the next front-row cell
SwapProbes ==
    {<<<<11, 6>>, <<11, 7>>>>, <<<<12, 10>>, <<11, 10>>>>, <<<<15, 9>>, <<14, 10>>>>,
     <<<<16, 9>>, <<16, 7>>>>, <<<<16, 7>>, <<16, 8>>>>, <<<<16, 9>>, <<16, 8>>>>,
     <<<<11, 6>>, <<12, 7>>>>, <<<<11, 6>>, <<10, 6>>>>, <<<<8, 5>>, <<8, 4>>>>,
     <<<<11, 7>>, <<16, 7>>>>, <<<<11, 7>>, <<11, 8>>>>}

SwapSetupPositions ==
    /\ calls < MaxLayoutCalls
    /\ \E probe \in SwapProbes :
        CallWith("swap_setup_positions", "", probe[1], probe[2],
                 swap_setup_positions(GL, probe[1], probe[2]))

NextLayout ==
    \/ LayoutAutoLayoutPlayer
    \/ LayoutApplyFormation
    \/ LayoutPlacePiece
    \/ SwapSetupPositions

SpecLayout == InitLayout /\ [][NextLayout]_vars

(***************************************************************************)
(* The rosters: auto_layout_player and apply_formation for every seat and  *)
(* every template of the registry, from a new object and from an object    *)
(* whose South area is empty.                                              *)
(***************************************************************************)
\* bound on the number of template calls explored
MaxRosterCalls == 2

InitRoster ==
    \/ StartsWith(FirstLayout, FORMATIONS)
    \/ StartsWith(auto_layout_player(FirstLayout,
                                     register_formation(FORMATIONS, "custom", EmptyingGrid).fm,
                                     PLAYER1, "custom").st,
                  register_formation(FORMATIONS, "custom", EmptyingGrid).fm)

RosterAutoLayoutPlayer ==
    /\ calls < MaxRosterCalls
    /\ \E player \in Player, name \in list_formations(formations) :
        DoAutoLayoutPlayer(player, name)

RosterApplyFormation ==
    /\ calls < MaxRosterCalls
    /\ \E player \in Player, name \in DOMAIN formations :
        DoApplyFormation(player, name)

NextRoster == RosterAutoLayoutPlayer \/ RosterApplyFormation
SpecRoster == InitRoster /\ [][NextRoster]_vars

(***************************************************************************)
(* server/strategies : the tactical classifier and the adversarial search. *)
(* A move is <<from_pos, to_pos>>; NoMove stands for None.  Floats are     *)
(* whole numbers: a score is an integer and a search value is held in      *)
(* units of 1/ValueScale, which keeps the discounted sums exact.           *)
(***************************************************************************)
NoMove == <<NoPos, NoPos>>

CATEGORY_DEFEND == "defend"
CATEGORY_ATTACK == "attack"
CATEGORY_PROBE == "probe"
\* preferred_category = None
NoCategory == "none"

\* the hidden pieces of player, outside the Camps, that an enemy piece can
\* reach in one move
_collect_attackable_unseen_positions(b, player) ==
    {my_pos \in Cells :
        /\ b[my_pos] # NoPiece
        /\ b[my_pos].player = player /\ ~b[my_pos].visible
        /\ cell_type[my_pos] # "CAMP"
        /\ \E epos \in Cells :
              /\ b[epos] # NoPiece
              /\ ~_are_allied(b[epos].player, player)
              /\ Board_can_move(b, epos, my_pos)}

\* classify_move_ex: [category, signals, board], board being the board
\* passed in as the call leaves it (the move is tried on a deep copy)
classify_move_ex(b, player, from_pos, to_pos) ==
    LET no_signals == [eat_piece |-> FALSE, enter_enemy_area_non_camp |-> FALSE,
                       enter_center |-> FALSE, new_exposed_unseen |-> FALSE]
        categorise(signals) ==
            [category |-> IF signals.eat_piece \/ signals.enter_enemy_area_non_camp
                          THEN CATEGORY_ATTACK
                          ELSE IF signals.enter_center \/ signals.new_exposed_unseen
                          THEN CATEGORY_PROBE
                          ELSE CATEGORY_DEFEND,
             signals |-> signals, board |-> b]
    IN  IF from_pos \notin Cells \/ b[from_pos] = NoPiece THEN categorise(no_signals)
        ELSE categorise(
            [eat_piece |->
                /\ to_pos \in Cells /\ b[to_pos] # NoPiece
                /\ ~_are_allied(b[to_pos].player, b[from_pos].player),
             enter_enemy_area_non_camp |->
                /\ to_pos \in Cells /\ player_area(to_pos) # NoArea
                /\ player_area(to_pos) # b[from_pos].player
                /\ cell_type[to_pos] # "CAMP",
             enter_center |-> is_center_position(to_pos),
             new_exposed_unseen |->
                _collect_attackable_unseen_positions(
                    Board_move_piece(b, from_pos, to_pos).board, player)
                \ _collect_attackable_unseen_positions(b, player) # {}])

classify_move(b, player, from_pos, to_pos) ==
    classify_move_ex(b, player, from_pos, to_pos).category

\* the order in which moves are listed: by origin, then by destination
MoveBefore(m, n) ==
    LET km == <<m[1][1], m[1][2], m[2][1], m[2][2]>>
        kn == <<n[1][1], n[1][2], n[2][1], n[2][2]>>
    IN  \E i \in 1..4 : km[i] < kn[i] /\ \A j \in 1..(i - 1) : km[j] = kn[j]

RECURSIVE MovesInOrder(_)
MovesInOrder(moves) ==
    IF moves = {} THEN <<>>
    ELSE LET first == CHOOSE m \in moves : \A n \in moves \ {m} : MoveBefore(m, n)
         IN  <<first>> \o MovesInOrder(moves \ {first})

\* the moves of player's pieces that can_move allows
legal_move_set(b, player) ==
    UNION {{<<from_pos, to_pos>> :
                to_pos \in {t \in candidate_destinations(b, from_pos) :
                                Board_can_move(b, from_pos, t)}} :
           from_pos \in {c \in Cells : b[c] # NoPiece /\ b[c].player = player}}

enumerate_player_legal_moves(b, player) == MovesInOrder(legal_move_set(b, player))

\* the score of a move: the outcome of the attack it makes and the occupation
\* of the central hub
evaluate_move(b, player, fp, tp) ==
    (IF b[tp] = NoPiece THEN 0
     ELSE IF _battle(b[fp], b[tp]) = b[fp] THEN 5
     ELSE IF _battle(b[fp], b[tp]) = NoPiece THEN 1
     ELSE -3)
    + (IF is_center_position(tp) THEN 2 ELSE 0)

\* bound on SearchConfig.depth
MaxSearchDepth == 2

\* a value v of the search is held as v * ValueScale
ValueScale == 100 ^ MaxSearchDepth

\* 1e18 in units of 1/ValueScale: above every value of the search
Infinity == 1000000000

\* SearchConfig.discount in hundredths
discount == 95

_players_turn_order(start) == [i \in 1..4 |-> ((start - 1 + (i - 1)) % 4) + 1]

\* the first seat after current, current last, that has a legal move; the
\* next seat when none has
_next_player(b, current) ==
    LET order == _players_turn_order(current)
        tried == [i \in 1..4 |-> IF i < 4 THEN order[i + 1] ELSE order[1]]
        pick(with_moves) ==
            IF with_moves = {} THEN order[2]
            ELSE tried[CHOOSE i \in with_moves : \A j \in with_moves : i <= j]
    IN  pick({i \in 1..4 : legal_move_set(b, tried[i]) # {}})

\* the move made on the board itself, a copy of which is returned
_simulate_move_in_place(b, move) ==
    LET moved(r) == [ok |-> r.ok, board |-> r.board, source |-> r.board]
    IN  moved(Board_move_piece(b, move[1], move[2]))

\* _simulate_move: [ok, board, source]: the move is made on a deep copy,
\* board, and source is the board passed in as the call leaves it
_simulate_move(b, move) ==
    LET copied(r) == [ok |-> r.ok, board |-> r.board, source |-> b]
    IN  copied(Board_move_piece(b, move[1], move[2]))

\* the pieces with their cells, owners, kinds, visibility and ids
_hash_board(b) ==
    [pos \in Cells |-> IF b[pos] = NoPiece THEN NoPiece
                       ELSE [b[pos] EXCEPT !.kill_count = 0]]

\* best immediate score of max_player's alliance minus that of the other
_evaluate_state(b, max_player) ==
    LET best(scores) ==
            IF scores = {} THEN 0 ELSE CHOOSE s \in scores : \A t \in scores : t <= s
        difference(scores) ==
            best(UNION {scores[p] : p \in {q \in Player : _are_allied(q, max_player)}})
            - best(UNION {scores[p] : p \in {q \in Player : ~_are_allied(q, max_player)}})
    IN  ValueScale
        * difference([p \in Player |->
                        {evaluate_move(b, p, m[1], m[2]) : m \in legal_move_set(b, p)}])

\* list.sort on the scores, stable, descending when maximizing
RECURSIVE sort_scored(_, _, _, _, _)
sort_scored(b, player, moves, maximizing, sorted) ==
    IF moves = <<>> THEN sorted
    ELSE
        LET m == Head(moves)
            place(s) ==
                LET k == Cardinality({j \in 1..Len(sorted) :
                                        IF maximizing THEN sorted[j][1] >= s
                                        ELSE sorted[j][1] <= s})
                IN  SubSeq(sorted, 1, k) \o <<<<s, m>>>> \o SubSeq(sorted, k + 1, Len(sorted))
        IN  IF b[m[1]] = NoPiece
            THEN sort_scored(b, player, Tail(moves), maximizing, sorted)
            ELSE sort_scored(b, player, Tail(moves), maximizing,
                             place(evaluate_move(b, player, m[1], m[2])))

_sort_moves_for_side(b, player, moves, maximizing) ==
    LET unscored(scored) == [i \in 1..Len(scored) |-> scored[i][2]]
    IN  unscored(sort_scored(b, player, moves, maximizing, <<>>))

\* SearchConfig.time_limit_ms = infinity: time_exceeded never answers true
NoDeadline == -1

\* the clock has passed the limit at the reading after clk readings:
\* deadline is the number of readings made before it does
clock_past_limit(ctx, clk) == ctx.deadline # NoDeadline /\ clk >= ctx.deadline

\* time_exceeded without the comparison with the limit
time_never_exceeded(ctx, mem) == FALSE

time_exceeded(ctx, mem) == clock_past_limit(ctx, mem.clk)

\* without the restriction of the first ply to the pool
first_ply_pool_unfiltered(ctx, depth, legal) == legal

\* the restriction of the first ply to the pool
first_ply_pool_filter(ctx, depth, legal) ==
    IF depth = ctx.depth /\ ctx.has_pool
    THEN LET in_pool(m) == m \in ctx.first_ply_moves IN SelectSeq(legal, in_pool)
    ELSE legal

\* the loop of the style filter from the i-th move on: [legal, board], the
\* moves kept and the board as the classifications leave it
RECURSIVE style_scan(_, _, _, _, _, _)
style_keep(ctx, player, legal, i, filtered, cls) ==
    style_scan(ctx, player, legal, i + 1,
               IF cls.category = ctx.preferred_category
               THEN Append(filtered, legal[i]) ELSE filtered,
               cls.board)

style_scan(ctx, player, legal, i, filtered, b) ==
    IF i > Len(legal) THEN [legal |-> filtered, board |-> b]
    ELSE style_keep(ctx, player, legal, i, filtered,
                    classify_move_ex(b, player, legal[i][1], legal[i][2]))

\* the style filter of the first ply, keeping what it filtered also when
\* nothing is left
first_ply_style_filter_strict(ctx, b, player, depth, legal) ==
    IF depth = ctx.depth /\ ctx.apply_style_filter_first_ply
       /\ ctx.preferred_category # NoCategory
    THEN style_scan(ctx, player, legal, 1, <<>>, b)
    ELSE [legal |-> legal, board |-> b]

\* the style filter of the first ply: [legal, board]
first_ply_style_filter(ctx, b, player, depth, legal) ==
    IF depth = ctx.depth /\ ctx.apply_style_filter_first_ply
       /\ ctx.preferred_category # NoCategory
    THEN LET keep(r) == IF r.legal # <<>> THEN r
                        ELSE [legal |-> legal, board |-> r.board]
         IN  keep(style_scan(ctx, player, legal, 1, <<>>, b))
    ELSE [legal |-> legal, board |-> b]

beam(ctx, legal) ==
    IF ctx.beam_width # 0 /\ Len(legal) > ctx.beam_width
    THEN SubSeq(legal, 1, ctx.beam_width)
    ELSE legal

tt_put(tt, key, val) ==
    [k \in DOMAIN tt \cup {key} |-> IF k = key THEN val ELSE tt[k]]

\* recurse answers [value, move, mem, board]: board is the board passed in
\* as the call leaves it, and mem = [tt, clk, explored, stack, entries,
\* expansions, filters] is the transposition table, the number of clock
\* readings, the node count and a record of the run: the depths of the
\* calls under way, <<depth of the caller, depth, clock past the limit>> for
\* every call made, <<depth, clock past the limit at its entry>> for every
\* node that went on to a child, and <<depth, moves listed, moves kept>> for
\* every node whose moves were listed.
\* node = [ctx, player, depth, maximizing, late, legal] is the node whose
\* moves the for loop goes through, acc = [alpha, beta, value, move, mem, b]
\* what the loop has so far, b being the node's board.
RECURSIVE recurse(_, _, _, _, _, _, _)
RECURSIVE search_loop(_, _, _)

NoTrace == [tt |-> <<>>, clk |-> 0, explored |-> 0, stack |-> <<>>,
            entries |-> {}, expansions |-> {}, filters |-> {}]

\* the end of an iteration: the cut-off test
loop_cutoff(node, i, acc) ==
    IF node.ctx.use_alpha_beta /\ acc.beta <= acc.alpha THEN acc
    ELSE search_loop(node, i + 1, acc)

\* value, best move and window after the i-th move came out at total
loop_update(node, i, acc, total, mem) ==
    IF node.maximizing
    THEN IF total > acc.value
         THEN [acc EXCEPT !.alpha = IF total > @ THEN total ELSE @,
                          !.value = total,
                          !.move = IF node.depth = node.ctx.depth THEN node.legal[i] ELSE @,
                          !.mem = mem]
         ELSE [acc EXCEPT !.alpha = IF acc.value > @ THEN acc.value ELSE @,
                          !.mem = mem]
    ELSE IF total < acc.value
         THEN [acc EXCEPT !.beta = IF total < @ THEN total ELSE @,
                          !.value = total,
                          !.move = IF node.depth = node.ctx.depth THEN node.legal[i] ELSE @,
                          !.mem = mem]
         ELSE [acc EXCEPT !.beta = IF acc.value < @ THEN acc.value ELSE @,
                          !.mem = mem]

\* the i-th move after the search below it answered child
loop_after_child(node, i, acc, child) ==
    IF acc.b[node.legal[i][1]] = NoPiece
    THEN search_loop(node, i + 1, [acc EXCEPT !.mem = child.mem])
    ELSE loop_cutoff(node, i,
            loop_update(node, i, acc,
                (IF node.maximizing THEN 1 ELSE -1) * ValueScale
                    * evaluate_move(acc.b, node.player,
                                    node.legal[i][1], node.legal[i][2])
                + (child.value \div 100) * discount,
                child.mem))

\* the i-th move after its simulation answered sim
loop_after_simulation(node, i, acc, sim) ==
    IF ~sim.ok THEN search_loop(node, i + 1, [acc EXCEPT !.b = sim.source])
    ELSE loop_after_child(node, i, [acc EXCEPT !.b = sim.source],
            recurse(node.ctx, sim.board, _next_player(sim.board, node.player),
                    node.depth - 1, acc.alpha, acc.beta,
                    [acc.mem EXCEPT !.explored = @ + 1,
                                    !.expansions = @ \cup {<<node.depth, node.late>>}]))

\* the for loop over legal from the i-th move on
search_loop(node, i, acc) ==
    IF i > Len(node.legal) THEN acc
    ELSE loop_after_simulation(node, i, acc, _simulate_move(acc.b, node.legal[i]))

\* recurse once the moves to look at are known: leaf says that the node is
\* not expanded (out of time, or at the horizon), listed is the list of the
\* moves as enumerated and kept is [legal, board], the answer of the filters
expand(ctx, b, player, depth, alpha, beta, mem, leaf, listed, kept) ==
    LET read == [mem EXCEPT
                    !.clk = @ + 1,
                    !.stack = Append(@, depth),
                    !.entries = @ \cup
                        {<<IF mem.stack = <<>> THEN ctx.depth + 1
                           ELSE mem.stack[Len(mem.stack)],
                           depth, clock_past_limit(ctx, mem.clk)>>}]
        state_key == <<_hash_board(b), player, depth>>
        maximizing == _are_allied(player, ctx.start_player)
        return(value, move, m, left) ==
            [value |-> value, move |-> move, board |-> left,
             mem |-> [m EXCEPT !.stack = SubSeq(@, 1, Len(@) - 1),
                               !.tt = IF leaf THEN @ ELSE tt_put(@, state_key, value)]]
        answer(acc) == return(acc.value, acc.move, acc.mem, acc.b)
        looked == [read EXCEPT !.filters = @ \cup {<<depth, listed, kept.legal>>}]
    IN  IF ~leaf /\ state_key \in DOMAIN mem.tt
        THEN [value |-> mem.tt[state_key], move |-> NoMove, board |-> b,
              mem |-> [read EXCEPT !.stack = SubSeq(@, 1, Len(@) - 1)]]
        ELSE IF leaf
        THEN return(_evaluate_state(b, ctx.start_player), NoMove, read, b)
        ELSE IF kept.legal = <<>>
        THEN return(_evaluate_state(kept.board, ctx.start_player), NoMove, looked,
                    kept.board)
        ELSE answer(search_loop(
                [ctx |-> ctx, player |-> player, depth |-> depth,
                 maximizing |-> maximizing,
                 late |-> clock_past_limit(ctx, mem.clk),
                 legal |-> beam(ctx, _sort_moves_for_side(kept.board, player,
                                                          kept.legal, maximizing))],
                1,
                [alpha |-> alpha, beta |-> beta,
                 value |-> IF maximizing THEN -Infinity ELSE Infinity,
                 move |-> NoMove, mem |-> looked, b |-> kept.board]))

\* recurse with the moves as enumerated
enumerated(ctx, b, player, depth, alpha, beta, mem, leaf, listed) ==
    expand(ctx, b, player, depth, alpha, beta, mem, leaf, listed,
           IF leaf THEN [legal |-> <<>>, board |-> b]
           ELSE first_ply_style_filter(ctx, b, player, depth,
                    first_ply_pool_filter(ctx, depth, listed)))

recurse(ctx, b, player, depth, alpha, beta, mem) ==
    enumerated(ctx, b, player, depth, alpha, beta, mem,
               time_exceeded(ctx, mem) \/ depth = 0,
               IF time_exceeded(ctx, mem) \/ depth = 0 THEN <<>>
               ELSE enumerate_player_legal_moves(b, player))

\* ctx: the arguments of the call and the fields of its SearchConfig.
\* [result, board, trace]: the SearchResult, the board passed in as the
\* call leaves it, and the record of the run
alpha_beta_search(b, ctx) ==
    LET result(r) ==
            [result |-> [best_move |-> r.move, score |-> r.value,
                         explored_nodes |-> r.mem.explored, cutoff |-> FALSE],
             board |-> r.board,
             trace |-> [entries |-> r.mem.entries, expansions |-> r.mem.expansions,
                        filters |-> r.mem.filters, stack |-> r.mem.stack]]
    IN  result(recurse(ctx, b, ctx.start_player, ctx.depth, -Infinity, Infinity,
                       NoTrace))

search_best_move_in_pool(b, ctx) ==
    IF ctx.first_ply_moves = {}
    THEN [result |-> [best_move |-> NoMove, score |-> 0, explored_nodes |-> 0,
                      cutoff |-> FALSE],
          board |-> b,
          trace |-> [entries |-> {}, expansions |-> {}, filters |-> {},
                     stack |-> <<>>]]
    ELSE alpha_beta_search(b, ctx)

(***************************************************************************)
(* Root move selection: the counter-attack pool first, then the pool of    *)
(* the sampled category.                                                   *)
(***************************************************************************)
\* choose_best_move_styled returns None
NoChoice == [id |-> -1, from |-> NoPos, to |-> NoPos, piece_id |-> NoId]

\* bound on the depth of the searches of the root move selection
\* (SearchConfig(depth=3))
MaxStyledDepth == 1

\* the scan of the records from the i-th back to the seat's last move
RECURSIVE scan_counterattack_targets(_, _, _, _)
scan_counterattack_targets(records, i, player, attackers) ==
    IF i = 0 THEN attackers
    ELSE IF records[i].player_faction = faction_map[player] THEN attackers
    ELSE
        LET rec == records[i]
            go_on(found) ==
                IF Len(found) >= 2 THEN found
                ELSE scan_counterattack_targets(records, i - 1, player, found)
        IN  go_on(IF /\ rec.outcome = "attack_attacker_wins"
                     /\ \E k \in 1..Len(rec.dead_piece_ids) :
                            rec.dead_piece_ids[k][1] = player
                  THEN Append(attackers, rec.piece_id)
                  ELSE attackers)

_find_counterattack_targets(records, player) ==
    scan_counterattack_targets(records, Len(records), player, <<>>)

\* no counter-attack pool
no_counter_moves(b, legal_moves, targets) == <<>>

\* the legal moves that land on a counter-attack target
counter_moves_of(b, legal_moves, targets) ==
    LET on_target(m) ==
            /\ b[m[2]] # NoPiece
            /\ \E k \in 1..Len(targets) : targets[k] = b[m[2]].piece_id
    IN  SelectSeq(legal_moves, on_target)

\* the SearchConfig of the root move selection, with the pool, the category
\* and the clock of one search
styled_search_ctx(player, candidates, category, deadline) ==
    [start_player |-> player, has_pool |-> TRUE,
     first_ply_moves |-> {candidates[k] : k \in 1..Len(candidates)},
     preferred_category |-> category,
     depth |-> IF MaxStyledDepth < 3 THEN MaxStyledDepth ELSE 3,
     beam_width |-> 8, deadline |-> deadline,
     use_alpha_beta |-> TRUE, apply_style_filter_first_ply |-> TRUE]

\* the answer made of the move a search returned
styled_choice(b, legal_moves, move) ==
    [id |-> (CHOOSE k \in 1..Len(legal_moves) :
                /\ legal_moves[k] = move
                /\ \A j \in 1..(k - 1) : legal_moves[j] # move) - 1,
     from |-> move[1], to |-> move[2],
     piece_id |-> IF b[move[1]] = NoPiece THEN NoId ELSE b[move[1]].piece_id]

\* the pool of a phase of choose_best_move_styled: the counter-attack moves
\* (phase 1), the moves of the sampled category (phase 2)
styled_candidates(b, player, legal_moves, records, category, phase) ==
    LET in_category(m) == classify_move(b, player, m[1], m[2]) = category
    IN  IF phase = 1
        THEN counter_moves_of(b, legal_moves,
                              _find_counterattack_targets(records, player))
        ELSE SelectSeq(legal_moves, in_category)

\* the list of the searches made, [pool, category, best_move], with one more
styled_made(searches, ctx, best_move) ==
    Append(searches, [pool |-> ctx.first_ply_moves,
                      category |-> ctx.preferred_category,
                      best_move |-> best_move])

\* the two searches of choose_best_move_styled, one after the other
RECURSIVE styled_phase(_, _, _, _, _, _, _, _)

\* what follows a search: its move is the answer, or the next phase is tried
styled_after(player, legal_moves, records, category, deadlines, phase, made, sr) ==
    IF sr.result.best_move # NoMove
    THEN [result |-> styled_choice(sr.board, legal_moves, sr.result.best_move),
          board |-> sr.board, searches |-> made]
    ELSE IF phase = 1
    THEN styled_phase(sr.board, player, legal_moves, records, category,
                      deadlines, 2, made)
    ELSE [result |-> NoChoice, board |-> sr.board, searches |-> made]

styled_searched(player, legal_moves, records, category, deadlines, phase, searches, ctx, sr) ==
    styled_after(player, legal_moves, records, category, deadlines, phase,
                 styled_made(searches, ctx, sr.result.best_move), sr)

styled_pooled(b, player, legal_moves, records, category, deadlines, phase, searches, candidates) ==
    IF phase = 1 /\ candidates = <<>>
    THEN styled_phase(b, player, legal_moves, records, category, deadlines, 2,
                      searches)
    ELSE styled_searched(player, legal_moves, records, category, deadlines, phase,
            searches,
            styled_search_ctx(player,
                              IF candidates # <<>> THEN candidates ELSE legal_moves,
                              IF phase = 2 /\ candidates # <<>>
                              THEN category ELSE NoCategory,
                              deadlines[phase]),
            search_best_move_in_pool(b,
                styled_search_ctx(player,
                                  IF candidates # <<>> THEN candidates ELSE legal_moves,
                                  IF phase = 2 /\ candidates # <<>>
                                  THEN category ELSE NoCategory,
                                  deadlines[phase])))

styled_phase(b, player, legal_moves, records, category, deadlines, phase, searches) ==
    styled_pooled(b, player, legal_moves, records, category, deadlines, phase,
                  searches,
                  styled_candidates(b, player, legal_moves, records, category, phase))

\* choose_best_move_styled: [result, board, searches]; category is what
\* _sample_behavior_category draws, deadlines the clocks of the two searches
choose_best_move_styled(b, player, legal_moves, records, category, deadlines) ==
    IF legal_moves = <<>>
    THEN [result |-> NoChoice, board |-> b, searches |-> <<>>]
    ELSE styled_phase(b, player, legal_moves, records, category, deadlines, 1, <<>>)

(***************************************************************************)
(* The search, asked for a move of South in positions of a game in         *)
(* progress, with pools made of legal and illegal moves.  The search works *)
(* on copies and leaves the object as it is.                               *)
(***************************************************************************)
SearchScenes ==
    {Scene(CombatPieces(k1, k2) \cup reserve, {}, PLAYER1) :
        k1 \in {"REGIMENT"}, k2 \in {"COMMANDER", "PLATOON"},
        reserve \in {{}, ReservePieces}}

InitSearch == StartFrom(SearchScenes)

\* a move no seat may make: a Flag leaving its Headquarters
IllegalProbe == <<<<16, 7>>, <<15, 7>>>>

\* the empty pool; an illegal move alone; the first legal move alone; the
\* attacks with an illegal move; the moves onto empty cells of the seat's
\* own territory; every legal move of the seat
SearchPools(b, player) ==
    LET pools(legal) ==
            {{}, {IllegalProbe},
             {CHOOSE m \in legal : \A n \in legal \ {m} : MoveBefore(m, n)},
             {m \in legal : b[m[2]] # NoPiece} \cup {IllegalProbe},
             {m \in legal : b[m[2]] = NoPiece /\ player_area(m[2]) = player},
             legal}
    IN  pools(legal_move_set(b, player))

BeamWidths == {1, 8}
Deadlines == {NoDeadline, 0, 2}
PreferredCategories == {NoCategory, CATEGORY_ATTACK}

Search ==
    /\ ret = NoCall
    /\ \E pool \in SearchPools(board, current_player),
          depth \in 0..MaxSearchDepth, beam_width \in BeamWidths,
          deadline \in Deadlines, category \in PreferredCategories :
        LET ctx == [start_player |-> current_player, has_pool |-> TRUE,
                    first_ply_moves |-> pool, preferred_category |-> category,
                    depth |-> depth, beam_width |-> beam_width, deadline |-> deadline,
                    use_alpha_beta |-> TRUE, apply_style_filter_first_ply |-> TRUE]
            done(r) ==
                /\ ret' = [op |-> "search", arg |-> ctx, from_pos |-> NoPos,
                           to_pos |-> NoPos, result |-> r.result, trace |-> r.trace]
                /\ board' = r.board
        IN  done(search_best_move_in_pool(board, ctx))
    /\ pre' = GL
    /\ UNCHANGED <<server_vars, game_state, current_player, eliminated_players,
                   history, setup_complete, formations, calls>>

NextSearch == Search
SpecSearch == InitSearch /\ [][NextSearch]_vars

(***************************************************************************)
(* The classifier, asked about a piece of the seat to move and any cell of *)
(* the board or none, whether the piece may go there or not.               *)
(***************************************************************************)
ClassifyMove ==
    /\ ret = NoCall
    /\ \E from_pos \in {c \in Cells : board[c] # NoPiece
                                      /\ board[c].player = current_player},
          to_pos \in Cells \cup {NoPos} :
        ret' = [op |-> "classify_move", arg |-> current_player,
                from_pos |-> from_pos, to_pos |-> to_pos,
                result |-> classify_move_ex(board, current_player, from_pos, to_pos)]
    /\ pre' = GL
    /\ UNCHANGED <<server_vars, board, game_state, current_player, eliminated_players,
                   history, setup_complete, formations, calls>>

NextClassify == ClassifyMove
SpecClassify == InitSearch /\ [][NextClassify]_vars

(***************************************************************************)
(* Root move selection in a game of South against West: a West piece       *)
(* stands in a Camp of South's territory next to a South Company, with a   *)
(* second South piece in the Camp behind.  The seats move, and the seat to *)
(* move asks for its move.                                                 *)
(***************************************************************************)
MaxStyledCalls == 2

StyledPieces(k1, k2) ==
    {<<<<16, 7>>, Piece("FLAG", PLAYER1, TRUE, 0, <<PLAYER1, 1>>)>>,
     <<<<12, 8>>, Piece("COMPANY", PLAYER1, FALSE, 0, <<PLAYER1, 2>>)>>,
     <<<<13, 8>>, Piece(k1, PLAYER1, FALSE, 0, <<PLAYER1, 3>>)>>,
     <<<<7, 0>>,  Piece("FLAG", PLAYER2, TRUE, 0, <<PLAYER2, 1>>)>>,
     <<<<12, 7>>, Piece(k2, PLAYER2, FALSE, 0, <<PLAYER2, 2>>)>>}

StyledScenes ==
    {Scene(StyledPieces(k1, k2), {PLAYER3, PLAYER4}, PLAYER1) :
        k1 \in {"DIVISION"}, k2 \in {"REGIMENT", "GENERAL"}}

\* the calls of a game played so far: <<from, to>> is move_piece, <<NoPos,
\* NoPos>> skip_turn
RECURSIVE played(_, _)
played(st, steps) ==
    IF steps = <<>> THEN st
    ELSE played(IF Head(steps) = <<NoPos, NoPos>> THEN skip_turn(st).st
                ELSE move_piece(st, Head(steps)[1], Head(steps)[2]).st,
                Tail(steps))

\* three West Regiments in and next to the Camps of South's territory, each
\* next to a South Company, and a South Division in the Camp in the middle
AmbushPieces ==
    {<<<<16, 7>>, Piece("FLAG", PLAYER1, TRUE, 0, <<PLAYER1, 1>>)>>,
     <<<<13, 8>>, Piece("DIVISION", PLAYER1, FALSE, 0, <<PLAYER1, 3>>)>>,
     <<<<12, 8>>, Piece("COMPANY", PLAYER1, FALSE, 0, <<PLAYER1, 4>>)>>,
     <<<<13, 7>>, Piece("COMPANY", PLAYER1, FALSE, 0, <<PLAYER1, 5>>)>>,
     <<<<13, 9>>, Piece("COMPANY", PLAYER1, FALSE, 0, <<PLAYER1, 6>>)>>,
     <<<<7, 0>>,  Piece("FLAG", PLAYER2, TRUE, 0, <<PLAYER2, 1>>)>>,
     <<<<12, 7>>, Piece("REGIMENT", PLAYER2, FALSE, 0, <<PLAYER2, 3>>)>>,
     <<<<14, 7>>, Piece("REGIMENT", PLAYER2, FALSE, 0, <<PLAYER2, 4>>)>>,
     <<<<12, 9>>, Piece("REGIMENT", PLAYER2, FALSE, 0, <<PLAYER2, 5>>)>>}

\* West takes the three Companies one after the other while South, whose
\* turn it is in between, skips
AmbushedScenes ==
    {played(Scene(AmbushPieces, {PLAYER3, PLAYER4}, PLAYER2),
            <<<<<<12, 7>>, <<12, 8>>>>, <<NoPos, NoPos>>,
              <<<<14, 7>>, <<13, 7>>>>, <<NoPos, NoPos>>,
              <<<<12, 9>>, <<13, 9>>>>>>)}

InitStyled == StartFrom(StyledScenes \cup AmbushedScenes)

StyledMovePiece ==
    /\ calls < MaxStyledCalls
    /\ ret.op # "choose_best_move_styled"
    /\ \E m \in LegalMoves : Call("move_piece", m[1], m[2], move_piece(GL, m[1], m[2]))

StyledDeadlines == {NoDeadline, 0}

StyledAnswer(arg, r) ==
    /\ ret' = [op |-> "choose_best_move_styled", arg |-> arg,
               from_pos |-> NoPos, to_pos |-> NoPos,
               result |-> r.result, searches |-> r.searches]
    /\ board' = r.board

ChooseBestMoveStyled ==
    /\ game_state = "PLAYING"
    /\ ret.op # "choose_best_move_styled"
    /\ \E category \in {CATEGORY_ATTACK, CATEGORY_PROBE, CATEGORY_DEFEND},
          deadlines \in StyledDeadlines \X StyledDeadlines :
        StyledAnswer([player |-> current_player, category |-> category,
                      deadlines |-> deadlines],
                     choose_best_move_styled(board, current_player,
                        enumerate_player_legal_moves(board, current_player),
                        history, category, deadlines))
    /\ pre' = GL
    /\ UNCHANGED <<server_vars, game_state, current_player, eliminated_players,
                   history, setup_complete, formations, calls>>

NextStyled == StyledMovePiece \/ ChooseBestMoveStyled
SpecStyled == InitStyled /\ [][NextStyled]_vars

(***************************************************************************)
(* The public state, asked for after at most one move of a game of four    *)
(* seats, together with the public state of the same game in which some of *)
(* the pieces hidden from the viewer are of another kind.                  *)
(***************************************************************************)
MaxPublicCalls == 1

\* the seats that can ask for the public state, and no seat
Viewers == Player \cup {NoArea}

\* the occupied cells whose piece is neither the viewer's nor revealed
HiddenFrom(st, viewer) ==
    {c \in Cells : /\ st.board[c] # NoPiece
                   /\ ~st.board[c].visible
                   /\ st.board[c].player # viewer}

\* st with the pieces on the cells given being of the kind k
WithKinds(st, cells, k) ==
    [st EXCEPT !.board = [c \in Cells |->
        IF c \in cells THEN [st.board[c] EXCEPT !.piece_type = k] ELSE st.board[c]]]

OtherKinds == {"COMMANDER", "MINE"}

InitPublic == StartFrom(MixedScenes)

PublicMovePiece == calls < MaxPublicCalls /\ DoMovePiece

GetPublicGameState ==
    /\ ret.op # "get_public_game_state"
    /\ \E viewer \in Viewers, k \in OtherKinds :
        \E cells \in {h \in SUBSET HiddenFrom(GL, viewer) : Cardinality(h) <= 2} :
            ret' = [op |-> "get_public_game_state",
                    arg |-> [viewer |-> viewer, cells |-> cells, kind |-> k],
                    from_pos |-> NoPos, to_pos |-> NoPos,
                    result |-> public_game_state(GL, viewer),
                    variant |-> public_game_state(WithKinds(GL, cells, k), viewer)]
    /\ pre' = GL
    /\ UNCHANGED <<server_vars, board, game_state, current_player, eliminated_players,
                   history, setup_complete, formations, calls>>

NextPublic == PublicMovePiece \/ GetPublicGameState
SpecPublic == InitPublic /\ [][NextPublic]_vars

(***************************************************************************)
(* The Perspective Manager, refreshed after at most two moves of a game of *)
(* four seats.                                                             *)
(***************************************************************************)
MaxPerspectiveCalls == 2

InitPerspective == StartFrom(MixedScenes)

PerspectiveMovePiece ==
    /\ calls < MaxPerspectiveCalls
    /\ ret.op # "refresh"
    /\ DoMovePiece

Refresh ==
    /\ ret.op # "refresh"
    /\ ret' = [op |-> "refresh", from_pos |-> NoPos, to_pos |-> NoPos,
               result |-> refresh(GL)]
    /\ pre' = GL
    /\ UNCHANGED <<server_vars, board, game_state, current_player, eliminated_players,
                   history, setup_complete, formations, calls>>

NextPerspective == PerspectiveMovePiece \/ Refresh
SpecPerspective == InitPerspective /\ [][NextPerspective]_vars

(***************************************************************************)
(* Games in which South keeps, behind its free piece on (7,1), a piece on  *)
(* the Railway cell (15,7) in front of its Flag, below the empty Camp      *)
(* (14,7), with Mines of its own on none, one or both of the Railway cells *)
(* beside it.                                                              *)
(***************************************************************************)
MaxStuckCalls == 2

StuckPieces(k, mines) ==
    CombatPieces("REGIMENT", "COMMANDER") \cup
    {<<<<15, 7>>, Piece(k, PLAYER1, FALSE, 0, <<PLAYER1, 3>>)>>}
    \cup {<<<<15, 6>>, Piece("MINE", PLAYER1, FALSE, 0, <<PLAYER1, 4>>)>> : m \in mines \cap {1}}
    \cup {<<<<15, 8>>, Piece("MINE", PLAYER1, FALSE, 0, <<PLAYER1, 5>>)>> : m \in mines \cap {2}}

StuckScenes ==
    {Scene(StuckPieces(k, mines), {}, cur) :
        k \in {"PLATOON", "ENGINEER"}, mines \in SUBSET {1, 2}, cur \in {PLAYER1, PLAYER2}}

InitStuck == StartFrom(StuckScenes)

StuckMovePiece ==
    /\ calls < MaxStuckCalls
    /\ DoMovePiece

NextStuck == StuckMovePiece
SpecStuck == InitStuck /\ [][NextStuck]_vars

(***************************************************************************)
(* The board as Board() makes it, without pieces, asked once for the       *)
(* straight railway reach of one of its cells.                             *)
(***************************************************************************)
InitBridge == Starts(NewGame)

GetRailwayStraightReachablePositions ==
    /\ ret = NoCall
    /\ \E position \in Cells :
        ret' = [op |-> "get_railway_straight_reachable_positions",
                from_pos |-> position, to_pos |-> NoPos,
                result |-> get_railway_straight_reachable_positions(board, position)]
    /\ pre' = GL
    /\ UNCHANGED <<server_vars, board, game_state, current_player, eliminated_players,
                   history, setup_complete, formations, calls>>

NextBridge == GetRailwayStraightReachablePositions
SpecBridge == InitBridge /\ [][NextBridge]_vars

(***************************************************************************)
(* Board.can_move on the railway: a South piece stands on a Railway cell   *)
(* of a board on which other pieces stand on railway cells, and can_move   *)
(* is asked for every Railway destination.  can_move changes nothing.      *)
(***************************************************************************)
RailwayCells == {c \in Cells : cell_type[c] = "RAILWAY"}

\* the kinds of the piece asked about: the Engineer and two others
RailMoverKinds == {"ENGINEER", "REGIMENT", "BOMB"}

\* pieces of the other seats (and one of South) standing on railway cells
RailLayouts ==
    {{},
     {<<<<10, 5>>, Piece("COMPANY", PLAYER2, FALSE, 0, <<PLAYER2, 3>>)>>,
      <<<<6, 6>>,  Piece("COMPANY", PLAYER3, FALSE, 0, <<PLAYER3, 3>>)>>,
      <<<<13, 10>>, Piece("COMPANY", PLAYER1, FALSE, 0, <<PLAYER1, 3>>)>>},
     {<<<<8, 6>>,  Piece("BATTALION", PLAYER2, FALSE, 0, <<PLAYER2, 3>>)>>,
      <<<<8, 10>>, Piece("BATTALION", PLAYER4, FALSE, 0, <<PLAYER4, 3>>)>>,
      <<<<6, 8>>,  Piece("BATTALION", PLAYER3, FALSE, 0, <<PLAYER3, 3>>)>>,
      <<<<12, 6>>, Piece("BATTALION", PLAYER2, FALSE, 0, <<PLAYER2, 4>>)>>},
     {<<<<12, 6>>, Piece("COMPANY", PLAYER1, FALSE, 0, <<PLAYER1, 3>>)>>,
      <<<<11, 7>>, Piece("COMPANY", PLAYER4, FALSE, 0, <<PLAYER4, 3>>)>>,
      <<<<10, 6>>, Piece("COMPANY", PLAYER3, FALSE, 0, <<PLAYER3, 3>>)>>,
      <<<<10, 4>>, Piece("COMPANY", PLAYER2, FALSE, 0, <<PLAYER2, 3>>)>>,
      <<<<6, 12>>, Piece("COMPANY", PLAYER4, FALSE, 0, <<PLAYER4, 4>>)>>}}

\* every seat has a free piece off the railway
RailHomePieces ==
    HomePieces \cup {<<<<8, 4>>, Piece("PLATOON", PLAYER2, FALSE, 0, <<PLAYER2, 5>>)>>}

RailScene(kind, origin, layout) ==
    Scene(RailHomePieces \cup layout
          \cup {<<origin, Piece(kind, PLAYER1, FALSE, 0, <<PLAYER1, 2>>)>>},
          {}, PLAYER1)

RailScenes ==
    {RailScene(k[1], k[2], k[3]) :
        k \in {x \in RailMoverKinds \X RailwayCells \X RailLayouts :
                  \A e \in x[3] : e[1] # x[2]}}

InitRail == StartFrom(RailScenes)

\* Board.can_move(from_pos, to_pos) for the piece asked about.  can_move leaves
\* the object as it is, so a query made after another one is a query that is
\* also made first: only those are taken
CanMove ==
    /\ ret = NoCall
    /\ \E from_pos \in {c \in RailwayCells : /\ board[c] # NoPiece
                                              /\ board[c].piece_id = <<PLAYER1, 2>>},
          to_pos \in RailwayCells :
           /\ ret' = [op |-> "can_move", from_pos |-> from_pos, to_pos |-> to_pos,
                      result |-> Board_can_move(board, from_pos, to_pos)]
           /\ pre' = GL
           /\ UNCHANGED <<server_vars, board, game_state, current_player, eliminated_players,
                          history, setup_complete, formations, calls>>

NextRail == CanMove
SpecRail == InitRail /\ [][NextRail]_vars

(***************************************************************************)
(* Properties.  In every state ret is the last call and pre the object as  *)
(* that call found it, so a statement about a call and its return is a     *)
(* statement about pre, ret and the current object.                        *)
(***************************************************************************)
Returned(op) == ret.op = op /\ ret.result

\* the last call was a move_piece that attacked an occupied cell
Battle == Returned("move_piece") /\ pre.board[ret.to_pos] # NoPiece

Attacker == pre.board[ret.from_pos]
Defender == pre.board[ret.to_pos]

\* the table of the rules, from the two kinds alone
TableOutcome(a, d) ==
    IF d = "FLAG" THEN "attack_attacker_wins"
    ELSE IF a = "BOMB" \/ d = "BOMB" THEN "attack_both_die"
    ELSE IF d = "MINE"
         THEN (IF a = "ENGINEER" THEN "attack_attacker_wins" ELSE "attack_defender_wins")
    ELSE IF get_power([piece_type |-> a]) > get_power([piece_type |-> d])
         THEN "attack_attacker_wins"
    ELSE IF get_power([piece_type |-> a]) < get_power([piece_type |-> d])
         THEN "attack_defender_wins"
    ELSE "attack_both_die"

OnBoard(b, id) == \E c \in Cells : b[c] # NoPiece /\ b[c].piece_id = id
HasPieces(b, p) == \E c \in Cells : b[c] # NoPiece /\ b[c].player = p

\* C1: a battle's outcome is the one the table gives for the attacker's and
\* the defender's kind: the move is recorded with that outcome, a piece the
\* table removes is nowhere on the board, and the piece the table lets win
\* stands on the attacked cell (unless its seat is eliminated by the same call)
C1_BattleFollowsTable ==
    Battle =>
        LET outcome == TableOutcome(Attacker.piece_type, Defender.piece_type)
        IN  /\ history[Len(history)].outcome = outcome
            /\ outcome # "attack_attacker_wins" => ~OnBoard(board, Attacker.piece_id)
            /\ outcome # "attack_defender_wins" => ~OnBoard(board, Defender.piece_id)
            /\ (outcome = "attack_attacker_wins"
                    /\ Attacker.player \notin eliminated_players)
                => /\ board[ret.to_pos] # NoPiece
                   /\ board[ret.to_pos].piece_id = Attacker.piece_id
                   /\ board[ret.to_pos].piece_type = Attacker.piece_type
            /\ (outcome = "attack_defender_wins"
                    /\ Defender.player \notin eliminated_players)
                => /\ board[ret.to_pos] # NoPiece
                   /\ board[ret.to_pos].piece_id = Defender.piece_id
                   /\ board[ret.to_pos].piece_type = Defender.piece_type

\* a Bomb has attacked a Flag and stands on the Flag's cell
C1_BombTakesFlag ==
    /\ Battle
    /\ Attacker.piece_type = "BOMB" /\ Defender.piece_type = "FLAG"
    /\ board[ret.to_pos] # NoPiece
    /\ board[ret.to_pos].piece_id = Attacker.piece_id

\* positions that are no cells of the board
OffBoard == {<<-1, 6>>, <<17, 7>>, <<0, 0>>, <<5, 5>>}

Immovable(b, pos) ==
    /\ b[pos] # NoPiece
    /\ \/ b[pos].piece_type \in {"MINE", "FLAG"}
       \/ cell_type[pos] = "HEADQUARTERS"

\* C2: can_move is false for every destination when the origin holds a Mine or
\* a Flag or is a Headquarters, and no move_piece call leaves a Mine, a Flag
\* or a piece that stood on a Headquarters on another cell than before
C2_ImmovableStay ==
    /\ \A from_pos \in Cells :
          Immovable(board, from_pos) =>
              \A to_pos \in Cells \cup OffBoard : ~Board_can_move(board, from_pos, to_pos)
    /\ ret.op = "move_piece" =>
          \A pos \in Cells :
              Immovable(pre.board, pos) =>
                  \A q \in Cells \ {pos} :
                      board[q] = NoPiece \/ board[q].piece_id # pre.board[pos].piece_id

\* the seat to move has asked a Mine of its own, with a free cell next to it,
\* to move there, and has been refused
C2_MineRefused ==
    /\ ret.op = "move_piece" /\ ~ret.result
    /\ pre.game_state = "PLAYING"
    /\ ret.from_pos \in Cells /\ ret.to_pos \in Cells
    /\ pre.board[ret.from_pos] # NoPiece
    /\ pre.board[ret.from_pos].piece_type = "MINE"
    /\ pre.board[ret.from_pos].player = pre.current_player
    /\ pre.board[ret.to_pos] = NoPiece
    /\ ret.to_pos \in get_adjacent_positions(ret.from_pos)
    /\ board[ret.from_pos] = pre.board[ret.from_pos]

CampOccupants(b) == {c \in Cells : cell_type[c] = "CAMP" /\ b[c] # NoPiece}

\* C3 as stated: can_move is false into an occupied Camp, and no successful
\* move_piece call changes or removes a piece that stood in a Camp (other
\* than the piece that moved)
C3_CampOccupantNeverRemoved ==
    /\ \A from_pos \in Cells, to_pos \in CampOccupants(board) :
          ~Board_can_move(board, from_pos, to_pos)
    /\ Returned("move_piece") =>
          \A c \in CampOccupants(pre.board) \ {ret.from_pos} : board[c] = pre.board[c]

\* C3, amended: can_move is false into an occupied Camp; no successful
\* move_piece call attacks a Camp occupant; a piece that stood in a Camp and
\* did not move is left as it was, or its whole seat is eliminated by the
\* call and cleared from the board
C3_CampOccupantNeverAttacked ==
    /\ \A from_pos \in Cells, to_pos \in CampOccupants(board) :
          ~Board_can_move(board, from_pos, to_pos)
    /\ Returned("move_piece") =>
          /\ ret.to_pos \notin CampOccupants(pre.board)
          /\ \A c \in CampOccupants(pre.board) \ {ret.from_pos} :
                \/ board[c] = pre.board[c]
                \/ /\ pre.board[c].player \in eliminated_players \ pre.eliminated_players
                   /\ ~HasPieces(board, pre.board[c].player)

\* the seat to move has sent a movable piece against an enemy piece in a Camp
\* next to it and has been refused, the occupant standing as before
C3_CampAttackRefused ==
    /\ ret.op = "move_piece" /\ ~ret.result
    /\ pre.game_state = "PLAYING"
    /\ ret.from_pos \in Cells /\ ret.to_pos \in CampOccupants(pre.board)
    /\ pre.board[ret.from_pos] # NoPiece
    /\ pre.board[ret.from_pos].player = pre.current_player
    /\ ~Immovable(pre.board, ret.from_pos)
    /\ ~_are_allied(pre.board[ret.from_pos].player, pre.board[ret.to_pos].player)
    /\ ret.to_pos \in get_adjacent_positions(ret.from_pos)
    /\ board[ret.to_pos] = pre.board[ret.to_pos]

FlagCaptured == Battle /\ Defender.piece_type = "FLAG"

\* C4: when a move_piece call captures a Flag, on return the Flag's owner is
\* in the eliminated set and has no piece left on the board
C4_FlagCaptureClearsOwner ==
    FlagCaptured =>
        /\ Defender.player \in eliminated_players
        /\ ~HasPieces(board, Defender.player)

\* a Flag has been captured whose owner, not eliminated before, had other
\* pieces on the board
C4_FlagCapturedWithOthers ==
    /\ FlagCaptured
    /\ Defender.player \notin pre.eliminated_players
    /\ \E c \in Cells \ {ret.to_pos} :
          pre.board[c] # NoPiece /\ pre.board[c].player = Defender.player
    /\ ~HasPieces(board, Defender.player)

AxisPartner ==
    (PLAYER1 :> PLAYER3) @@ (PLAYER3 :> PLAYER1) @@ (PLAYER2 :> PLAYER4) @@ (PLAYER4 :> PLAYER2)

\* C5: whenever South and North, or West and East, are both in the eliminated
\* set, the phase is Finished
C5_TeamEliminatedFinished ==
    (\E p \in Player : {p, AxisPartner[p]} \subseteq eliminated_players)
        => game_state = "FINISHED"

\* a seat whose partner was eliminated has surrendered during play, and the
\* phase is Finished on return
C5_SurrenderAfterPartner ==
    /\ Returned("surrender")
    /\ pre.game_state = "PLAYING"
    /\ AxisPartner[pre.current_player] \in pre.eliminated_players
    /\ pre.current_player \in eliminated_players
    /\ game_state = "FINISHED"

\* seat p's Commander has been removed by the battle of the last call
CommanderLost(p) ==
    /\ Battle
    /\ \/ /\ Attacker.piece_type = "COMMANDER" /\ Attacker.player = p
          /\ TableOutcome(Attacker.piece_type, Defender.piece_type) # "attack_attacker_wins"
       \/ /\ Defender.piece_type = "COMMANDER" /\ Defender.player = p
          /\ TableOutcome(Attacker.piece_type, Defender.piece_type) # "attack_defender_wins"

\* seat p's Flag stands on the board with its visibility set, and the public
\* state gives its kind to every seat and to a viewer that is no seat
FlagShown(p) ==
    \E c \in Cells :
        /\ board[c] # NoPiece
        /\ board[c].piece_type = "FLAG" /\ board[c].player = p
        /\ board[c].visible
        /\ \A viewer \in Player \cup {NoArea} :
              [row |-> c[1], col |-> c[2],
               piece |-> [player_id |-> p, piece_id |-> board[c].piece_id,
                          piece_type |-> "FLAG"]] \in get_public_game_state(GL, viewer)

\* C6 as stated: when a move_piece call removes a seat's Commander in combat,
\* on return that seat's Flag is visible and the public state gives its kind
\* to every viewer
C6_CommanderDeathShowsFlag ==
    \A p \in Player : CommanderLost(p) => FlagShown(p)

\* C6, amended: when a move_piece call removes a seat's Commander in combat,
\* on return either that seat's Flag is visible and the public state gives its
\* kind to every viewer, or the seat has been eliminated by the same call and
\* none of its pieces, the Flag included, is on the board
C6_CommanderDeathShowsFlagUnlessEliminated ==
    \A p \in Player :
        CommanderLost(p) =>
            IF p \in eliminated_players THEN ~HasPieces(board, p) ELSE FlagShown(p)

\* two Commanders have died together and both seats' Flags, hidden before,
\* are shown
C6_BothFlagsShown ==
    /\ CommanderLost(PLAYER1) /\ CommanderLost(PLAYER2)
    /\ FlagShown(PLAYER1) /\ FlagShown(PLAYER2)
    /\ \A c \in Cells :
          (pre.board[c] # NoPiece /\ pre.board[c].piece_type = "FLAG"
              /\ pre.board[c].player \in {PLAYER1, PLAYER2}) => ~pre.board[c].visible

IllegalMove(st, from_pos, to_pos) ==
    \/ st.game_state # "PLAYING"
    \/ from_pos \notin Cells
    \/ to_pos \notin Cells
    \/ st.board[from_pos] = NoPiece
    \/ st.board[from_pos].player # st.current_player
    \/ ~Board_can_move(st.board, from_pos, to_pos)

C8_ApplyFormationAllOrNothing ==
    (ret.op = "apply_formation" /\ ~ret.result) => board = pre.board

SeatAfter ==
    (PLAYER1 :> PLAYER4) @@ (PLAYER4 :> PLAYER3) @@ (PLAYER3 :> PLAYER2) @@ (PLAYER2 :> PLAYER1)

FirstSeatAfter(seat, eliminated) ==
    IF SeatAfter[seat] \notin eliminated THEN SeatAfter[seat]
    ELSE IF SeatAfter[SeatAfter[seat]] \notin eliminated THEN SeatAfter[SeatAfter[seat]]
    ELSE IF SeatAfter[SeatAfter[SeatAfter[seat]]] \notin eliminated
         THEN SeatAfter[SeatAfter[SeatAfter[seat]]]
    ELSE seat

TurnOps == {"move_piece", "skip_turn", "surrender"}

\* C9: when a successful move_piece, skip_turn or surrender leaves the phase
\* Playing, the new current seat is the first seat outside the eliminated set
\* after the previous current seat in the order South, East, North, West
C9_NextSeatCounterClockwise ==
    (ret.op \in TurnOps /\ ret.result /\ game_state = "PLAYING")
        => current_player = FirstSeatAfter(pre.current_player, eliminated_players)

\* a skip_turn has passed over an eliminated seat
C9_EliminatedSeatPassedOver ==
    /\ Returned("skip_turn")
    /\ game_state = "PLAYING"
    /\ SeatAfter[pre.current_player] \in eliminated_players
    /\ current_player = SeatAfter[SeatAfter[pre.current_player]]

\* seat p has pieces on board b and none of them has a legal move
Stuck(b, p) == HasPieces(b, p) /\ ~has_player_any_legal_move(b, p)

\* C10: at every turn advance, after a successful move, skip_turn or
\* surrender, each seat with pieces on the board but no legal move is in the
\* eliminated set and has had its pieces cleared: no such seat is left on the
\* board on return, and a seat in that position when skip_turn is called is
\* eliminated and cleared by it
C10_StuckSeatsEliminatedAtEveryAdvance ==
    (ret.op \in TurnOps /\ ret.result) =>
        /\ \A p \in Player : ~Stuck(board, p)
        /\ ret.op = "skip_turn" =>
              \A p \in Player :
                  Stuck(pre.board, p) => p \in eliminated_players /\ ~HasPieces(board, p)

\* the four edges that join the edge lines of neighbouring seats
CornerEdges ==
    {{<<6, 5>>, <<5, 6>>}, {<<10, 5>>, <<11, 6>>},
     {<<11, 10>>, <<10, 11>>}, {<<6, 11>>, <<5, 10>>}}

\* a railway edge: two adjacent Railway cells, or a corner edge
RailEdge(a, c) ==
    /\ a \in RailwayCells /\ c \in RailwayCells
    /\ \/ c \in get_adjacent_positions(a)
       \/ a \in get_adjacent_positions(c)
       \/ {a, c} \in CornerEdges

RailNeighbours == [a \in RailwayCells |-> {c \in RailwayCells : RailEdge(a, c)}]

\* the empty Railway cells joined to the cells of `from` by railway edges
\* through empty cells, added to reached
RECURSIVE OpenRail(_, _, _)
OpenRail(b, from, reached) ==
    LET more == {c \in (UNION {RailNeighbours[a] : a \in from}) \ reached :
                    b[c] = NoPiece}
    IN  IF more = {} THEN reached ELSE OpenRail(b, more, reached \cup more)

JoinedByRail(b, origin, dest) ==
    \E a \in OpenRail(b, {origin}, {}) \cup {origin} : dest \in RailNeighbours[a]

\* dest is empty or holds a piece of the other alliance than the piece on origin
EmptyOrEnemy(b, origin, dest) ==
    \/ b[dest] = NoPiece
    \/ b[dest].player \notin {b[origin].player, AxisPartner[b[origin].player]}

\* C11: for an Engineer on a Railway cell and a Railway destination, can_move
\* is true exactly when the destination is empty or enemy-occupied and is
\* joined to the origin by a path of railway edges whose intermediate cells
\* are all empty; an allied piece is never a destination and blocks
C11_EngineerFollowsRailwayPaths ==
    (ret.op = "can_move" /\ is_engineer(board[ret.from_pos])) =>
        ret.result = (/\ EmptyOrEnemy(board, ret.from_pos, ret.to_pos)
                      /\ JoinedByRail(board, ret.from_pos, ret.to_pos))

\* the Engineer on (11,6) may go over the corner edge to (10,5), held by an enemy
C11_EngineerCrossesCorner ==
    /\ Returned("can_move")
    /\ is_engineer(board[ret.from_pos])
    /\ ret.from_pos = <<11, 6>> /\ ret.to_pos = <<10, 5>>
    /\ board[<<10, 5>>] # NoPiece

\* the cells of the board strictly between two cells of one row or column
BetweenCells(a, c) ==
    {x \in Cells :
        \/ /\ a[1] = c[1] /\ x[1] = a[1]
           /\ \/ a[2] < x[2] /\ x[2] < c[2]
              \/ c[2] < x[2] /\ x[2] < a[2]
        \/ /\ a[2] = c[2] /\ x[2] = a[2]
           /\ \/ a[1] < x[1] /\ x[1] < c[1]
              \/ c[1] < x[1] /\ x[1] < a[1]}

\* dest lies on origin's row or column and every cell between them is an empty
\* Railway cell
StraightClear(b, origin, dest) ==
    /\ origin # dest
    /\ origin[1] = dest[1] \/ origin[2] = dest[2]
    /\ \A x \in BetweenCells(origin, dest) : x \in RailwayCells /\ b[x] = NoPiece

\* the edge line of a corner: the five Railway cells from the corner away from
\* the centre, along the side of its seat's area
EdgeLine(corner) ==
    LET dr == IF corner[1] = 11 THEN 1 ELSE IF corner[1] = 5 THEN -1 ELSE 0
        dc == IF corner[2] = 11 THEN 1 ELSE IF corner[2] = 5 THEN -1 ELSE 0
    IN  [k \in 1..5 |-> <<corner[1] + (k - 1) * dr, corner[2] + (k - 1) * dc>>]

BridgeCorners == UNION CornerEdges

BridgePartner(corner) == CHOOSE c \in BridgeCorners : c # corner /\ {corner, c} \in CornerEdges

\* origin lies on the edge line of a corner, dest on the edge line of that
\* corner's partner, and every cell of the two lines between them is empty
BridgeClear(b, origin, dest) ==
    \E corner \in BridgeCorners :
        \E i \in 1..5, j \in 1..5 :
            /\ EdgeLine(corner)[i] = origin
            /\ EdgeLine(BridgePartner(corner))[j] = dest
            /\ \A k \in 1..(i - 1) : b[EdgeLine(corner)[k]] = NoPiece
            /\ \A k \in 1..(j - 1) : b[EdgeLine(BridgePartner(corner))[k]] = NoPiece

\* C12: for a piece other than an Engineer on a Railway cell, every Railway
\* destination that is not plainly adjacent and that can_move accepts is empty
\* or enemy-occupied and is reached through empty Railway cells only, either
\* straight along the origin's row or column, or over the one corner bridge of
\* the edge line the origin lies on onto the neighbouring seat's edge line
C12_StraightOrOneBridge ==
    (/\ Returned("can_move")
     /\ ~is_engineer(board[ret.from_pos])
     /\ ret.to_pos \notin get_adjacent_positions(ret.from_pos)) =>
        /\ EmptyOrEnemy(board, ret.from_pos, ret.to_pos)
        /\ \/ StraightClear(board, ret.from_pos, ret.to_pos)
           \/ BridgeClear(board, ret.from_pos, ret.to_pos)

\* a Regiment on South's left edge line goes round the corner into West's row
C12_BridgeTaken ==
    /\ Returned("can_move")
    /\ board[ret.from_pos].piece_type = "REGIMENT"
    /\ ret.from_pos = <<13, 6>> /\ ret.to_pos = <<10, 3>>
    /\ ~StraightClear(board, ret.from_pos, ret.to_pos)

\* C13: after a battle with a single winner the winner's kill count is its own
\* count before the battle plus the loser's plus one, whether it attacked or
\* defended, and no other piece's kill count changes; after a mutual death both
\* cells are empty and no kill count changes
C13_WinnerInheritsKills ==
    Battle =>
        LET outcome == history[Len(history)].outcome
            total == Attacker.kill_count + Defender.kill_count + 1
            others == {c \in Cells : board[c] # NoPiece
                                     /\ (c # ret.to_pos \/ outcome = "attack_both_die")}
        IN  /\ (outcome = "attack_attacker_wins"
                    /\ Attacker.player \notin eliminated_players)
                => /\ board[ret.to_pos] # NoPiece
                   /\ board[ret.to_pos].piece_id = Attacker.piece_id
                   /\ board[ret.to_pos].kill_count = total
            /\ (outcome = "attack_defender_wins"
                    /\ Defender.player \notin eliminated_players)
                => /\ board[ret.to_pos] # NoPiece
                   /\ board[ret.to_pos].piece_id = Defender.piece_id
                   /\ board[ret.to_pos].kill_count = total
            /\ outcome = "attack_both_die"
                => board[ret.from_pos] = NoPiece /\ board[ret.to_pos] = NoPiece
            /\ \A c \in others :
                  /\ pre.board[c] # NoPiece
                  /\ board[c].piece_id = pre.board[c].piece_id
                  /\ board[c].kill_count = pre.board[c].kill_count

\* a defender with three kills has beaten an attacker with two and has six,
\* while a bystander keeps its one
C13_DefenderTakesOverKills ==
    /\ Battle
    /\ history[Len(history)].outcome = "attack_defender_wins"
    /\ Attacker.kill_count = 2 /\ Defender.kill_count = 3
    /\ board[ret.to_pos] # NoPiece /\ board[ret.to_pos].kill_count = 6
    /\ board[<<7, 2>>] # NoPiece /\ board[<<7, 2>>].kill_count = 1

\* C14: when a piece that is neither an Engineer nor a Bomb makes a legal
\* attack on an enemy Mine whose visible flag is false, move_piece returns
\* true, the move is recorded with outcome "attack_defender_wins", the
\* attacker is gone from the board and the Mine stands on its cell with its
\* visible flag still false
C14_HiddenMineSurvivesAttack ==
    (/\ ret.op = "move_piece"
     /\ ~IllegalMove(pre, ret.from_pos, ret.to_pos)
     /\ Defender # NoPiece
     /\ Defender.piece_type = "MINE" /\ ~Defender.visible
     /\ Attacker.piece_type \notin {"ENGINEER", "BOMB"}) =>
        /\ ret.result
        /\ Len(history) = Len(pre.history) + 1
        /\ history[Len(history)].outcome = "attack_defender_wins"
        /\ ~OnBoard(board, Attacker.piece_id)
        /\ board[ret.from_pos] = NoPiece
        /\ board[ret.to_pos] # NoPiece
        /\ board[ret.to_pos].piece_id = Defender.piece_id
        /\ board[ret.to_pos].piece_type = "MINE"
        /\ ~board[ret.to_pos].visible

\* a Commander has run into a hidden Mine
C14_CommanderHitsHiddenMine ==
    /\ Returned("move_piece")
    /\ Defender # NoPiece
    /\ Defender.piece_type = "MINE" /\ ~Defender.visible
    /\ Attacker.piece_type = "COMMANDER"
    /\ board[ret.to_pos] # NoPiece /\ board[ret.to_pos].piece_type = "MINE"

\* the seat's own row of a cell, counted from the front
LocalRow(c, p) == _get_local_coords(c, p)[1]

\* a piece of this kind of seat p on cell c breaks a rule for Bombs, Mines or Flags
SpecialRuleBroken(kind, p, c) ==
    \/ kind = "BOMB" /\ LocalRow(c, p) = 1
    \/ kind = "MINE" /\ LocalRow(c, p) \notin {5, 6}
    \/ kind = "FLAG" /\ ~(cell_type[c] = "HEADQUARTERS" /\ player_area(c) = p)

\* C15: in the Setup phase place_piece returns false and leaves the board as
\* it was for a Bomb on its owner's front row, a Mine outside its owner's last
\* two rows and a Flag on a cell that is no Headquarters; and in every state
\* of the Setup phase every Bomb is off its owner's front row, every Mine in
\* its owner's last two rows and every Flag on a Headquarters of its owner
C15_SpecialPiecesKeptInPlace ==
    /\ (/\ ret.op = "place_piece"
        /\ pre.game_state = "SETUP"
        /\ SpecialRuleBroken(ret.arg, PLAYER1, ret.from_pos))
            => ~ret.result /\ board = pre.board
    /\ game_state = "SETUP" =>
          \A c \in Cells :
              board[c] # NoPiece =>
                  ~SpecialRuleBroken(board[c].piece_type, board[c].player, c)

\* a Bomb offered for an empty front-row cell of an area with free cells has
\* been refused
C15_BombRefusedOnEmptyFrontRow ==
    /\ ret.op = "place_piece"
    /\ ret.arg = "BOMB" /\ ret.from_pos = <<11, 8>>
    /\ pre.board[<<11, 8>>] = NoPiece
    /\ ~ret.result

\* the kinds with a layout rule of their own
SpecialKinds == {"BOMB", "MINE", "FLAG"}

\* C16: in every state of the Setup phase no piece of a kind other than Bomb,
\* Mine and Flag stands on a Headquarters cell, and none on a Camp cell
C16_OrdinaryPiecesOffHeadquartersAndCamps ==
    game_state = "SETUP" =>
        \A c \in Cells :
            (board[c] # NoPiece /\ board[c].piece_type \notin SpecialKinds)
                => cell_type[c] \notin {"HEADQUARTERS", "CAMP"}

\* C17: start_game returns true and takes the phase from Setup to Playing only
\* when all four seats have completed their setup, and it does so then; when
\* some seat has not, it returns false and changes nothing
C17_StartGameNeedsAllSeats ==
    ret.op = "start_game" =>
        IF \A p \in Player : pre.setup_complete[p]
        THEN ret.result /\ game_state = "PLAYING"
        ELSE ~ret.result /\ GL = pre

\* start_game has been refused in the Setup phase because South's setup was
\* not complete
C17_StartRefusedForSouth ==
    /\ ret.op = "start_game"
    /\ ~ret.result
    /\ pre.game_state = "SETUP"
    /\ ~pre.setup_complete[PLAYER1]
    /\ \A p \in Player \ {PLAYER1} : pre.setup_complete[p]

\* the pieces of a full seat
FixedRoster ==
    [kind \in PieceType |->
        CASE kind \in {"COMMANDER", "GENERAL", "FLAG"} -> 1
          [] kind \in {"DIVISION", "BRIGADE", "REGIMENT", "BATTALION", "BOMB"} -> 2
          [] kind \in {"COMPANY", "PLATOON", "ENGINEER", "MINE"} -> 3]

\* the cells of board b that hold a piece of seat p
PiecesOf(b, p) == {c \in Cells : b[c] # NoPiece /\ b[c].player = p}

\* C18: for every seat and every built-in template, after a successful
\* apply_formation or auto_layout_player the seat has exactly 25 pieces: one
\* Commander, one General, two each of Division, Brigade, Regiment and
\* Battalion, three each of Company, Platoon, Engineer and Mine, two Bombs
\* and one Flag, which is the roster of INITIAL_PIECES
C18_TemplatesGiveFixedRoster ==
    /\ FixedRoster = INITIAL_PIECES
    /\ (/\ ret.op \in {"apply_formation", "auto_layout_player"}
        /\ ret.result
        /\ ret.arg[2] \in DOMAIN FORMATIONS) =>
          /\ Cardinality(PiecesOf(board, ret.arg[1])) = 25
          /\ \A kind \in PieceType :
                Cardinality({c \in PiecesOf(board, ret.arg[1]) :
                                board[c].piece_type = kind}) = FixedRoster[kind]

\* apply_formation has laid out a template that writes its Bombs with the
\* second Bomb character on South's empty area
C18_TemplateAppliedToEmptyArea ==
    /\ ret.op = "apply_formation"
    /\ ret.result
    /\ ret.arg = <<PLAYER1, "feihua_zhuyue">>
    /\ PiecesOf(pre.board, PLAYER1) = {}
    /\ Cardinality(PiecesOf(board, PLAYER1)) = 25


LegalPoolMoves == ret.arg.first_ply_moves \cap legal_move_set(board, current_player)

\* C20: the search returns None only when no move of the pool is legal for
\* the searching seat; with a legal move in the pool it returns a move, also
\* when the time budget runs out first.
C20_NoneOnlyWithoutLegalPoolMove ==
    ret.op = "search" => (ret.result.best_move = NoMove <=> LegalPoolMoves = {})


RootMovesKept(listed) ==
    LET in_pool(m) == m \in ret.arg.first_ply_moves
        matches(m) == classify_move(pre.board, ret.arg.start_player, m[1], m[2])
                        = ret.arg.preferred_category
        styled(pool_moves, matching) ==
            IF ret.arg.preferred_category # NoCategory /\ matching # <<>>
            THEN matching ELSE pool_moves
    IN  styled(SelectSeq(listed, in_pool),
               SelectSeq(SelectSeq(listed, in_pool), matches))

OntoEnemyPiece ==
    /\ ret.to_pos \in Cells
    /\ pre.board[ret.to_pos] # NoPiece
    /\ ~_are_allied(pre.board[ret.to_pos].player, pre.board[ret.from_pos].player)

\* the destination of the last classification is a cell other than a Camp in
\* the territory of a seat that is no ally of the piece moved
IntoEnemyTerritory ==
    /\ ret.to_pos \in Cells
    /\ player_area(ret.to_pos) # NoArea
    /\ ~_are_allied(player_area(ret.to_pos), pre.board[ret.from_pos].player)
    /\ cell_type[ret.to_pos] # "CAMP"

\* C26: the classifier answers one of Attack, Probe, Defend, and Attack
\* exactly when the destination holds an enemy piece or is a cell other than
\* a Camp in the territory of an enemy seat; so a move onto an empty cell of
\* the mover's, of its ally's territory or of the hub is never an Attack.
C26_AttackIsAgainstEnemy ==
    ret.op = "classify_move" =>
        /\ ret.result.category \in {CATEGORY_ATTACK, CATEGORY_PROBE, CATEGORY_DEFEND}
        /\ ret.result.category = CATEGORY_ATTACK <=> (OntoEnemyPiece \/ IntoEnemyTerritory)

(***************************************************************************)
(* Root move selection                                                     *)
(***************************************************************************)
\* the records made since the last record of player's own faction in which
\* a piece took one of player's pieces
CapturesSince(records, player) ==
    {i \in 1..Len(records) :
        /\ \A j \in i..Len(records) : records[j].player_faction # faction_map[player]
        /\ records[i].outcome = "attack_attacker_wins"
        /\ \E k \in 1..Len(records[i].dead_piece_ids) :
              records[i].dead_piece_ids[k][1] = player}

\* the legal moves of the seat that asked which land on the mover of one of
\* the records
MovesOntoCaptors(of_records) ==
    LET legal == enumerate_player_legal_moves(pre.board, ret.arg.player)
    IN  {legal[k] : k \in {j \in 1..Len(legal) :
            /\ pre.board[legal[j][2]] # NoPiece
            /\ \E i \in of_records :
                  pre.history[i].piece_id = pre.board[legal[j][2]].piece_id}}

\* the counter-attack pool, when there is one, is searched first and without
\* a category, its move is the answer, and a second search is made only
\* when the first one yielded no move
CounterAttackFirst(pool) ==
    /\ Len(ret.searches) <= 2
    /\ (Len(ret.searches) = 2 => pool # {} /\ ret.searches[1].best_move = NoMove)
    /\ pool # {} =>
          /\ Len(ret.searches) >= 1
          /\ ret.searches[1].pool = pool
          /\ ret.searches[1].category = NoCategory
          /\ ret.searches[1].best_move # NoMove =>
                /\ Len(ret.searches) = 1
                /\ <<ret.result.from, ret.result.to>> = ret.searches[1].best_move

LatestTwo(captures) ==
    {i \in captures : Cardinality({j \in captures : j > i}) < 2}

C23_PublicStateHidesKinds ==
    ret.op = "get_public_game_state" =>
        /\ \A e \in ret.result.board.pieces :
              e.piece.piece_type # "HIDDEN" =>
                  \/ board[<<e.row, e.col>>].player = ret.arg.viewer
                  \/ board[<<e.row, e.col>>].visible
        /\ ret.variant = ret.result

\* after a battle South is shown the kind of a piece of its own, and not the
\* kinds of a piece of its partner and of a piece of an enemy, which are
\* different in the other game
C23_PartnerAndEnemyHidden ==
    /\ ret.op = "get_public_game_state" /\ ret.arg.viewer = PLAYER1
    /\ history # <<>> /\ history[Len(history)].outcome # "move"
    /\ \E e \in ret.result.board.pieces :
          e.piece.player_id = PLAYER1 /\ e.piece.piece_type \notin {"HIDDEN", "FLAG"}
    /\ \E c \in ret.arg.cells :
          board[c].player = PLAYER3 /\ board[c].piece_type # ret.arg.kind
    /\ \E c \in ret.arg.cells :
          board[c].player = PLAYER2 /\ board[c].piece_type # ret.arg.kind

(***************************************************************************)
(* The Perspective Manager                                                 *)
(***************************************************************************)
\* the pieces on the board that are enemies of seat and whose face the view
\* of seat does not have
StillHiddenEnemies(seat) ==
    {board[c].piece_id : c \in {pos \in Cells :
        /\ board[pos] # NoPiece
        /\ ~_are_allied(board[pos].player, seat)
        /\ board[pos].piece_id \notin DOMAIN ret.result[seat].faces_public}}

MineAndFlagExcluded(seat, pid) ==
    /\ pid \in DOMAIN ret.result[seat].inferences
    /\ {"MINE", "FLAG"} \subseteq ret.result[seat].inferences[pid].excluded
    /\ ret.result[seat].inferences[pid].possible \cap {"MINE", "FLAG"} = {}

\* C24: after a refresh, every seat with a view holds, for every enemy piece
\* still hidden from it that is the moving piece of a history record, an
\* inference with Mine and Flag in the excluded set and neither in the
\* possible set.
C24_MovedPiecesExcludeMineAndFlag ==
    ret.op = "refresh" =>
        \A seat \in PerspectiveSeats : \A pid \in StillHiddenEnemies(seat) :
            (\E i \in 1..Len(history) : history[i].piece_id = pid)
                => MineAndFlagExcluded(seat, pid)

\* the cell a record's move went to
DestinationOf(rec) ==
    CHOOSE pos \in Cells :
        _get_local_coords(pos, seat_of_id(rec.piece_id)) = rec.to_local

\* C25: after a refresh, for every record of a mutual death on a cell that
\* is not a Headquarters and every seat with a view that owned one of the
\* two pieces, Flag is in the excluded set and not in the possible set of
\* the seat's inference for the other piece.
C25_MutualDeathExcludesFlag ==
    ret.op = "refresh" =>
        \A seat \in PerspectiveSeats : \A i \in 1..Len(history) :
            LET rec == history[i]
                other == IF seat_of_id(rec.piece_id) = seat
                         THEN rec.defender_piece_id ELSE rec.piece_id
            IN  (/\ rec.outcome = "attack_both_die"
                 /\ cell_type[DestinationOf(rec)] # "HEADQUARTERS"
                 /\ seat \in {seat_of_id(rec.piece_id), seat_of_id(rec.defender_piece_id)})
                => /\ other \in DOMAIN ret.result[seat].inferences
                   /\ "FLAG" \in ret.result[seat].inferences[other].excluded
                   /\ "FLAG" \notin ret.result[seat].inferences[other].possible

(***************************************************************************)
(* Legal moves and auto-elimination                                        *)
(***************************************************************************)
\* the board the last move_piece handed to the elimination check: the board
\* after the move and the battle, without the pieces of the seat whose Flag
\* was taken
BoardChecked ==
    LET moved == Board_move_piece(pre.board, ret.from_pos, ret.to_pos).board
        target == pre.board[ret.to_pos]
        post == moved[ret.to_pos]
    IN  IF /\ target # NoPiece /\ is_flag(target)
           /\ (post = NoPiece \/ ~is_flag(post))
        THEN clear_pieces_of(moved, target.player)
        ELSE moved

\* some piece of seat p has some destination for which can_move is true
SomeCanMove(b, p) ==
    \E from_pos \in Cells : \E to_pos \in Cells :
        /\ b[from_pos] # NoPiece /\ b[from_pos].player = p
        /\ Board_can_move(b, from_pos, to_pos)

\* C28: on the board a successful move_piece hands to the elimination
\* check, has_player_any_legal_move(seat) is true exactly when some piece of
\* the seat has some destination for which can_move is true, and the check
\* removes no seat that has such a piece.
C28_LegalMoveExactlyWhenSomeCanMove ==
    (ret.op = "move_piece" /\ ret.result) =>
        \A p \in Player :
            /\ has_player_any_legal_move(BoardChecked, p) <=> SomeCanMove(BoardChecked, p)
            /\ (p \in eliminated_players \ pre.eliminated_players)
                    => ~SomeCanMove(BoardChecked, p)

(***************************************************************************)
(* Bridging at the corners, on the board without pieces                    *)
(***************************************************************************)
\* the corner on the other side of a corner's bridge
BridgedCorner ==
    [c \in corner_cells |->
        CASE c = <<11, 6>> -> <<10, 5>>   [] c = <<10, 5>> -> <<11, 6>>
          [] c = <<11, 10>> -> <<10, 11>> [] c = <<10, 11>> -> <<11, 10>>
          [] c = <<5, 6>> -> <<6, 5>>     [] c = <<6, 5>> -> <<5, 6>>
          [] c = <<5, 10>> -> <<6, 11>>   [] c = <<6, 11>> -> <<5, 10>>]

\* the five cells of the edge line a corner belongs to
EdgeLineOf ==
    [c \in corner_cells |->
        CASE c = <<11, 6>> -> {<<r, 6>> : r \in 11..15}
          [] c = <<11, 10>> -> {<<r, 10>> : r \in 11..15}
          [] c = <<5, 6>> -> {<<r, 6>> : r \in 1..5}
          [] c = <<5, 10>> -> {<<r, 10>> : r \in 1..5}
          [] c = <<6, 5>> -> {<<6, k>> : k \in 1..5}
          [] c = <<10, 5>> -> {<<10, k>> : k \in 1..5}
          [] c = <<6, 11>> -> {<<6, k>> : k \in 11..15}
          [] c = <<10, 11>> -> {<<10, k>> : k \in 11..15}]

\* the hub cell next to a corner on its edge line's axis
HubBeyond ==
    [c \in corner_cells |->
        IF c[2] \in {6, 10} /\ c[1] \in {5, 11}
        THEN <<(IF c[1] = 5 THEN 6 ELSE 10), c[2]>>
        ELSE <<c[1], (IF c[2] = 5 THEN 6 ELSE 10)>>]

StraightReachAnswered == ret.op = "get_railway_straight_reachable_positions"

\* C30: on the board without pieces the straight railway reach from each of
\* the eight corners holds the five cells of the neighbouring seat's edge
\* line across the corner's bridge, and from a cell of an edge line that is
\* not its corner it holds the corner of the line, the hub cell beyond the
\* corner and the bridged corner of the neighbouring seat.
C30_CornersBridgeOnEmptyBoard ==
    StraightReachAnswered =>
        \A c \in corner_cells :
            /\ ret.from_pos = c => EdgeLineOf[BridgedCorner[c]] \subseteq ret.result
            /\ ret.from_pos \in EdgeLineOf[c] \ {c}
                    => {c, HubBeyond[c], BridgedCorner[c]} \subseteq ret.result

\* the reach from (4,10) has been answered and holds (5,10), (6,10), (6,11)
C30_EdgeCellReachesBridgedCorner ==
    /\ StraightReachAnswered
    /\ \A pos \in Cells : pre.board[pos] = NoPiece
    /\ ret.from_pos = <<4, 10>>
    /\ {<<5, 10>>, <<6, 10>>, <<6, 11>>} \subseteq ret.result

(***************************************************************************)
(* The history of a game                                                   *)
(***************************************************************************)
\* the records of the object before the last call, in order
KeptRecords == SubSeq(history, 1, Len(pre.history)) = pre.history

\* C31: every successful move_piece appends exactly one record to the
\* history, a failed move_piece, skip_turn and surrender append none, and
\* the turn fields of the records are 1, 2, 3, ... in the order of the list.
C31_OneRecordPerSuccessfulMove ==
    /\ \A i \in 1..Len(history) : history[i].turn = i
    /\ ret.op \in TurnOps =>
        /\ Len(pre.history) <= Len(history)
        /\ KeptRecords
        /\ Len(history) = Len(pre.history)
                          + (IF ret.op = "move_piece" /\ ret.result THEN 1 ELSE 0)

\* the second successful move of a game has been recorded with turn 2
C31_SecondMoveRecorded ==
    /\ Returned("move_piece")
    /\ Len(pre.history) = 1
    /\ Len(history) = 2
    /\ history[2].turn = 2

(***************************************************************************)
(* Eliminated seats                                                        *)
(***************************************************************************)
\* the seats the last call put into the eliminated set
NewlyEliminated == eliminated_players \ pre.eliminated_players

\* C32: in every state of a started game a seat in the eliminated set,
\* whether through the capture of its Flag, through surrender or through
\* auto-elimination, has no piece on the board, its Flag included.
C32_EliminatedSeatsHaveNoPiece ==
    \A p \in eliminated_players : ~HasPieces(board, p)

\* a surrender has eliminated the seat to move, whose Flag and other pieces
\* were on the board before the call
C32_SurrenderClearedBoard ==
    /\ Returned("surrender")
    /\ pre.current_player \in NewlyEliminated
    /\ \E c \in Cells : /\ pre.board[c] # NoPiece
                        /\ pre.board[c].player = pre.current_player
                        /\ is_flag(pre.board[c])
    /\ \E c \in Cells : /\ pre.board[c] # NoPiece
                        /\ pre.board[c].player = pre.current_player
                        /\ ~is_flag(pre.board[c])

(***************************************************************************)
(* The phases of a game: the calls of a game in progress together with     *)
(* start_game and reset_game                                               *)
(***************************************************************************)
MaxPhaseCalls == 2

InitPhase == StartFrom(TurnScenes \cup MixedScenes)

PhaseMovePiece == calls < MaxPhaseCalls /\ DoMovePiece
PhaseSkipTurn == calls < MaxPhaseCalls /\ DoSkipTurn
PhaseSurrender == calls < MaxPhaseCalls /\ DoSurrender

PhaseStartGame ==
    /\ calls < MaxPhaseCalls
    /\ \E first \in Player : Call("start_game", NoPos, NoPos, start_game(GL, first))

\* reset_game returns nothing; the result field is TRUE
ResetGame ==
    /\ calls < MaxPhaseCalls
    /\ \E names \in [Player -> BuiltinChoices] :
        Call("reset_game", NoPos, NoPos,
             [st |-> reset_game(GL, formations, names), result |-> TRUE])

NextPhase ==
    \/ PhaseMovePiece
    \/ PhaseSkipTurn
    \/ PhaseSurrender
    \/ PhaseStartGame
    \/ ResetGame

SpecPhase == InitPhase /\ [][NextPhase]_vars

PhaseRank == [s \in {"SETUP", "PLAYING", "FINISHED"} |->
                CASE s = "SETUP" -> 0 [] s = "PLAYING" -> 1 [] s = "FINISHED" -> 2]

\* C33: the phase only moves forward, Setup to Playing to Finished: in the
\* Finished phase move_piece, skip_turn and surrender return false and change
\* nothing, start_game does not bring a Finished game back to Playing and
\* does not restart a game that is Playing, and only reset_game leaves
\* Playing or Finished, for Setup.
C33_PhaseOnlyForward ==
    /\ (ret.op \in TurnOps /\ pre.game_state = "FINISHED")
            => (~ret.result /\ GL = pre)
    /\ (ret.op = "start_game" /\ pre.game_state \in {"PLAYING", "FINISHED"})
            => GL = pre
    /\ (ret.op \notin {"none", "reset_game"})
            => PhaseRank[game_state] >= PhaseRank[pre.game_state]
    /\ ret.op = "reset_game" => game_state = "SETUP"

(***************************************************************************)
(* The seat the search lets act next, asked about the board of a game in   *)
(* progress and a seat that is still in the game                           *)
(***************************************************************************)
MaxOrderCalls == 1

InitOrder == StartFrom(TurnScenes \cup MixedScenes)

OrderMovePiece == calls < MaxOrderCalls /\ ret.op # "_next_player" /\ DoMovePiece

NextPlayer ==
    /\ game_state = "PLAYING"
    /\ ret.op # "_next_player"
    /\ \E s \in Player \ eliminated_players :
        ret' = [op |-> "_next_player", arg |-> s, from_pos |-> NoPos,
                to_pos |-> NoPos, result |-> _next_player(board, s)]
    /\ pre' = GL
    /\ UNCHANGED <<server_vars, board, game_state, current_player, eliminated_players,
                   history, setup_complete, formations, calls>>

NextOrder == OrderMovePiece \/ NextPlayer
SpecOrder == InitOrder /\ [][NextOrder]_vars

\* the object after the Turn State Machine advanced the turn from seat s
TurnAfter(st, s) == _next_turn([st EXCEPT !.current_player = s])

\* C34: the seat the search simulates to act after seat s is the seat the
\* Turn State Machine makes current after s, the next seat in the order
\* South, East, North, West that can still move.
C34_SearchFollowsTurnOrder ==
    (ret.op = "_next_player" /\ TurnAfter(pre, ret.arg).game_state = "PLAYING")
        => ret.result = TurnAfter(pre, ret.arg).current_player

(***************************************************************************)
(* The search against the plain minimax of the same depth and beam width   *)
(***************************************************************************)
\* Plain beam-limited team minimax: at a node the seat to act takes the best
\* of its kept moves, best being the highest total for a seat of the
\* searching seat's alliance and the lowest for the others, a move's total
\* being its own score (counted against the searching alliance for the
\* other seats) plus the discounted value of the node it leads to; nothing
\* is pruned and nothing is remembered.  [value, move]
RECURSIVE minimax(_, _, _, _)
RECURSIVE minimax_loop(_, _, _, _, _, _, _)

minimax_total(ctx, b, player, depth, m, sim) ==
    (IF _are_allied(player, ctx.start_player) THEN 1 ELSE -1) * ValueScale
        * evaluate_move(b, player, m[1], m[2])
    + (minimax(ctx, sim.board, _next_player(sim.board, player), depth - 1).value
            \div 100) * discount

minimax_better(ctx, player, total, acc) ==
    IF _are_allied(player, ctx.start_player) THEN total > acc.value
    ELSE total < acc.value

minimax_step(ctx, b, player, depth, legal, i, acc, sim) ==
    IF ~sim.ok THEN minimax_loop(ctx, b, player, depth, legal, i + 1, acc)
    ELSE LET took(total) ==
                IF minimax_better(ctx, player, total, acc)
                THEN [value |-> total, move |-> legal[i]]
                ELSE acc
         IN  minimax_loop(ctx, b, player, depth, legal, i + 1,
                          took(minimax_total(ctx, b, player, depth, legal[i], sim)))

minimax_loop(ctx, b, player, depth, legal, i, acc) ==
    IF i > Len(legal) THEN acc
    ELSE minimax_step(ctx, b, player, depth, legal, i, acc,
                      _simulate_move(b, legal[i]))

minimax_node(ctx, b, player, depth, kept) ==
    IF kept.legal = <<>>
    THEN [value |-> _evaluate_state(b, ctx.start_player), move |-> NoMove]
    ELSE minimax_loop(ctx, b, player, depth,
                      beam(ctx, _sort_moves_for_side(b, player, kept.legal,
                                    _are_allied(player, ctx.start_player))),
                      1,
                      [value |-> IF _are_allied(player, ctx.start_player)
                                 THEN -Infinity ELSE Infinity,
                       move |-> NoMove])

minimax(ctx, b, player, depth) ==
    IF depth = 0
    THEN [value |-> _evaluate_state(b, ctx.start_player), move |-> NoMove]
    ELSE minimax_node(ctx, b, player, depth,
            first_ply_style_filter(ctx, b, player, depth,
                first_ply_pool_filter(ctx, depth,
                    enumerate_player_legal_moves(b, player))))

MaxMinimaxCalls == 1

MinimaxWidths == {2, 8}

InitMinimax == StartFrom(SearchScenes)

MinimaxMovePiece == calls < MaxMinimaxCalls /\ ret.op # "alpha_beta_search" /\ DoMovePiece

\* the search of the seat to move without pool, category and time limit
AlphaBetaSearch ==
    /\ game_state = "PLAYING"
    /\ ret.op # "alpha_beta_search"
    /\ \E depth \in 1..MaxSearchDepth, beam_width \in MinimaxWidths :
        LET ctx == [start_player |-> current_player, has_pool |-> FALSE,
                    first_ply_moves |-> {}, preferred_category |-> NoCategory,
                    depth |-> depth, beam_width |-> beam_width,
                    deadline |-> NoDeadline,
                    use_alpha_beta |-> TRUE, apply_style_filter_first_ply |-> TRUE]
        IN  ret' = [op |-> "alpha_beta_search", arg |-> ctx, from_pos |-> NoPos,
                    to_pos |-> NoPos,
                    result |-> alpha_beta_search(board, ctx).result]
    /\ pre' = GL
    /\ UNCHANGED <<server_vars, board, game_state, current_player, eliminated_players,
                   history, setup_complete, formations, calls>>

NextMinimax == MinimaxMovePiece \/ AlphaBetaSearch
SpecMinimax == InitMinimax /\ [][NextMinimax]_vars

\* the answer of the plain minimax to the call the search answered last
PlainAnswer == minimax(ret.arg, pre.board, ret.arg.start_player, ret.arg.depth)

MaxSoundCalls == 2

KindNumber ==
    [pt \in PieceType |->
        CASE pt = "COMMANDER" -> 10 [] pt = "GENERAL" -> 9 [] pt = "DIVISION" -> 8
          [] pt = "BRIGADE" -> 7 [] pt = "REGIMENT" -> 6 [] pt = "BATTALION" -> 5
          [] pt = "COMPANY" -> 4 [] pt = "PLATOON" -> 3 [] pt = "ENGINEER" -> 2
          [] pt = "BOMB" -> 1 [] pt = "MINE" -> 0 [] pt = "FLAG" -> 11]

SoundAttackers == {"ENGINEER", "REGIMENT", "COMMANDER", "BOMB"}
SoundDefenders == {"MINE", "BOMB", "ENGINEER", "REGIMENT", "COMMANDER"}

SoundPieces(k1, k2) ==
    HomePieces \cup
    {<<<<7, 1>>, Piece(k1, PLAYER1, FALSE, 0, <<PLAYER1, 100 + KindNumber[k1]>>)>>,
     <<<<8, 1>>, Piece(k2, PLAYER2, FALSE, 0, <<PLAYER2, 100 + KindNumber[k2]>>)>>,
     <<<<7, 2>>, Piece("PLATOON", PLAYER2, FALSE, 0, <<PLAYER2, 4>>)>>}

SoundScenes ==
    {Scene(SoundPieces(k1, k2), {}, cur) :
        k1 \in SoundAttackers, k2 \in SoundDefenders, cur \in {PLAYER1, PLAYER2}}

InitSound == StartFrom(SoundScenes)

SoundMovePiece ==
    /\ calls < MaxSoundCalls
    /\ ret.op # "refresh"
    /\ DoMovePiece

SoundRefresh ==
    /\ ret.op # "refresh"
    /\ ret' = [op |-> "refresh", from_pos |-> NoPos, to_pos |-> NoPos,
               result |-> refresh(GL)]
    /\ pre' = GL
    /\ UNCHANGED <<server_vars, board, game_state, current_player, eliminated_players,
                   history, setup_complete, formations, calls>>

NextSound == SoundMovePiece \/ SoundRefresh
SpecSound == InitSound /\ [][NextSound]_vars

\* the kind of the piece with the id pid in the games of SpecSound
TrueKind(pid) ==
    IF pid[2] >= 100
    THEN CHOOSE pt \in PieceType : KindNumber[pt] = pid[2] - 100
    ELSE (CHOOSE e \in SoundPieces("REGIMENT", "REGIMENT") : e[2].piece_id = pid)[2].piece_type

\* the inferences a seat holds about pieces after the last refresh
HeldInferences(seat) == DOMAIN ret.result[seat].inferences \ {NoId}

\* C36: after any refresh, for every viewing seat and every piece the seat
\* holds an inference for, the kind the piece has is not in the excluded
\* set and is in the possible set.
C36_InferenceSound ==
    ret.op = "refresh" =>
        \A seat \in PerspectiveSeats : \A pid \in HeldInferences(seat) :
            /\ TrueKind(pid) \notin ret.result[seat].inferences[pid].excluded
            /\ TrueKind(pid) \in ret.result[seat].inferences[pid].possible

\* West holds an inference about a South piece that attacked and lost:
\* Bomb, Mine and Flag are excluded and its kind is among the possible ones
C36_WestInfersLostAttacker ==
    /\ ret.op = "refresh"
    /\ \E pid \in HeldInferences(PLAYER2) :
        /\ pid[1] = PLAYER1
        /\ \E i \in 1..Len(history) : /\ history[i].piece_id = pid
                                      /\ history[i].outcome = "attack_defender_wins"
        /\ {"BOMB", "MINE", "FLAG"} \subseteq ret.result[PLAYER2].inferences[pid].excluded
        /\ TrueKind(pid) \in ret.result[PLAYER2].inferences[pid].possible

(***************************************************************************)
(* server/game_process.py : the background dispatch.  The thread of the    *)
(* callers and the worker threads run _start_background_dispatch and _run  *)
(* one statement at a time, in any order.                                  *)
(***************************************************************************)
MaxDispatchCalls == 3

logic_vars == <<board, game_state, current_player, eliminated_players, history,
                setup_complete, formations, ret, pre>>

\* the prev_player a caller passes: None from on_game_started, the seat
\* whose turn ended from on_turn_changed
DispatchArguments == {NoArea, PLAYER1, PLAYER2}

WorkerIds == 1..MaxWorkers

\* where a thread is after _start_background_dispatch returns
Returned_to(t) == IF t = 0 THEN "idle" ELSE "done"

\* thread t goes on to the statement pc, the shared fields stay
Goes(t, pc) ==
    /\ threads' = [threads EXCEPT ![t].pc = pc]
    /\ UNCHANGED <<_ai_worker_busy, _pending_dispatch, _pending_prev_player,
                   unserved, _ai_running, ai_task, calls, logic_vars>>

\* on_game_started or on_turn_changed calls _start_background_dispatch
StartBackgroundDispatch ==
    /\ calls < MaxDispatchCalls
    /\ threads[0].pc = "idle"
    /\ \E prev_player \in DispatchArguments :
        threads' = [threads EXCEPT ![0].pc = "test_busy",
                                   ![0].prev_player = prev_player]
    /\ unserved' = TRUE
    /\ calls' = calls + 1
    /\ UNCHANGED <<_ai_worker_busy, _pending_dispatch, _pending_prev_player,
                   _ai_running, ai_task, logic_vars>>

\* if self._ai_worker_busy:
TestBusy ==
    \E t \in ThreadIds :
        /\ threads[t].pc = "test_busy"
        /\ Goes(t, IF _ai_worker_busy THEN "queue_dispatch" ELSE "start_thread")

\* self._pending_dispatch = True
QueueDispatch ==
    \E t \in ThreadIds :
        /\ threads[t].pc = "queue_dispatch"
        /\ _pending_dispatch' = TRUE
        /\ threads' = [threads EXCEPT ![t].pc = "queue_prev_player"]
        /\ UNCHANGED <<_ai_worker_busy, _pending_prev_player, unserved, _ai_running, ai_task,
                       calls, logic_vars>>

\* self._pending_prev_player = prev_player; return
QueuePrevPlayer ==
    \E t \in ThreadIds :
        /\ threads[t].pc = "queue_prev_player"
        /\ _pending_prev_player' = threads[t].prev_player
        /\ threads' = [threads EXCEPT ![t].pc = Returned_to(t)]
        /\ UNCHANGED <<_ai_worker_busy, _pending_dispatch, unserved, _ai_running, ai_task,
                       calls, logic_vars>>

\* threading.Thread(target=_run, daemon=True).start(): the new thread is the
\* first worker not yet started, and _run keeps the caller's prev_player
StartThread ==
    \E t \in ThreadIds, w \in WorkerIds :
        /\ threads[t].pc = "start_thread"
        /\ threads[w].pc = "idle"
        /\ \A v \in WorkerIds : v < w => threads[v].pc # "idle"
        /\ threads' = [threads EXCEPT
                          ![w] = [pc |-> "set_busy",
                                  prev_player |-> threads[t].prev_player,
                                  next_prev |-> NoArea],
                          ![t].pc = Returned_to(t)]
        /\ UNCHANGED <<_ai_worker_busy, _pending_dispatch, _pending_prev_player,
                       unserved, _ai_running, ai_task, calls, logic_vars>>

\* _run: self._ai_worker_busy = True
SetBusy ==
    \E w \in WorkerIds :
        /\ threads[w].pc = "set_busy"
        /\ _ai_worker_busy' = TRUE
        /\ threads' = [threads EXCEPT ![w].pc = "begin_pass"]
        /\ UNCHANGED <<_pending_dispatch, _pending_prev_player, unserved, _ai_running, ai_task,
                       calls, logic_vars>>

\* _run: _handle_pending_broadcast(prev_player) and _schedule_ai_safe() begin;
\* the pass looks at the turn as it is now, so it serves every request made
\* so far
BeginPass ==
    \E w \in WorkerIds :
        /\ threads[w].pc = "begin_pass"
        /\ unserved' = FALSE
        /\ threads' = [threads EXCEPT ![w].pc = "in_pass"]
        /\ UNCHANGED <<_ai_worker_busy, _pending_dispatch, _pending_prev_player,
                       _ai_running, ai_task, calls, logic_vars>>

\* _run: _schedule_ai_safe() returns or raises
EndPass ==
    \E w \in WorkerIds : threads[w].pc = "in_pass" /\ Goes(w, "clear_busy")

\* finally: self._ai_worker_busy = False
ClearBusy ==
    \E w \in WorkerIds :
        /\ threads[w].pc = "clear_busy"
        /\ _ai_worker_busy' = FALSE
        /\ threads' = [threads EXCEPT ![w].pc = "test_pending"]
        /\ UNCHANGED <<_pending_dispatch, _pending_prev_player, unserved, _ai_running, ai_task,
                       calls, logic_vars>>

\* if self._pending_dispatch:
TestPending ==
    \E w \in WorkerIds :
        /\ threads[w].pc = "test_pending"
        /\ Goes(w, IF _pending_dispatch THEN "read_prev_player" ELSE "done")

\* next_prev = self._pending_prev_player
ReadPrevPlayer ==
    \E w \in WorkerIds :
        /\ threads[w].pc = "read_prev_player"
        /\ threads' = [threads EXCEPT ![w].pc = "clear_pending",
                                      ![w].next_prev = _pending_prev_player]
        /\ UNCHANGED <<_ai_worker_busy, _pending_dispatch, _pending_prev_player,
                       unserved, _ai_running, ai_task, calls, logic_vars>>

\* self._pending_dispatch = False
ClearPending ==
    \E w \in WorkerIds :
        /\ threads[w].pc = "clear_pending"
        /\ _pending_dispatch' = FALSE
        /\ threads' = [threads EXCEPT ![w].pc = "clear_prev_player"]
        /\ UNCHANGED <<_ai_worker_busy, _pending_prev_player, unserved, _ai_running, ai_task,
                       calls, logic_vars>>

\* self._pending_prev_player = None, and the worker calls
\* _start_background_dispatch(next_prev)
ClearPrevPlayer ==
    \E w \in WorkerIds :
        /\ threads[w].pc = "clear_prev_player"
        /\ _pending_prev_player' = NoArea
        /\ threads' = [threads EXCEPT ![w].pc = "test_busy",
                                      ![w].prev_player = threads[w].next_prev]
        /\ UNCHANGED <<_ai_worker_busy, _pending_dispatch, unserved, _ai_running, ai_task,
                       calls, logic_vars>>

InitDispatch == Starts(NewGame)

NextDispatch ==
    \/ StartBackgroundDispatch
    \/ TestBusy
    \/ QueueDispatch
    \/ QueuePrevPlayer
    \/ StartThread
    \/ SetBusy
    \/ BeginPass
    \/ EndPass
    \/ ClearBusy
    \/ TestPending
    \/ ReadPrevPlayer
    \/ ClearPending
    \/ ClearPrevPlayer

SpecDispatch == InitDispatch /\ [][NextDispatch]_vars

\* no thread is inside _start_background_dispatch or _run
Quiescent == \A t \in ThreadIds : threads[t].pc \in {"idle", "done"}

\* C37: a dispatch request that arrives while the background worker is busy
\* is not lost under any interleaving of the requesting thread and the
\* worker: it is queued and a follow-up dispatch is started when the worker
\* finishes, so that once all threads have come to rest every request has
\* been followed by the beginning of a scheduling pass.
C37_QueuedRequestNotLost == Quiescent => ~unserved

\* the workers that have been started and have not finished their pass
WorkersInPass ==
    {w \in WorkerIds : threads[w].pc \in {"set_busy", "begin_pass", "in_pass"}}

\* C38: at most one background worker runs at any time: no second worker
\* is started while a worker started earlier has not finished its
\* scheduling pass, so two scheduling passes never run concurrently.
C38_AtMostOneWorker == Cardinality(WorkersInPass) <= 1

(***************************************************************************)
(* GameServer.handle_ai_move and GameServer._schedule_ai_if_needed of      *)
(* server/game_server.py.  handle_ai_move is a coroutine: it runs to its   *)
(* first suspension inside the retry loop (the await of the agent's        *)
(* answer), and other message handlers can run before it goes on.          *)
(***************************************************************************)
MaxAiCalls == 4

\* cap on the tasks created by _schedule_ai_if_needed that have not begun
MaxTasks == 2

\* max_attempts = 30
max_attempts == 30

\* numbers of answers of the agent that fail a validation before its first
\* answer that passes the field and type validations
FailChoices == {0, 1, max_attempts - 1, max_attempts}

\* self.human_seat after the local player has connected
human_seat == PLAYER1

\* the seats that persona_assignments gives a persona with an agent
persona_assignments == Player \ {human_seat}

_is_seat_human(seat) == human_seat = seat

\* whether the agent returned is not None
_get_ai_agent_for_seat(seat) == seat \in persona_assignments

\* whether _schedule_ai_if_needed creates a task of handle_ai_move
_schedule_ai_if_needed(st, running) ==
    IF st.game_state # "PLAYING" THEN FALSE
    ELSE IF running THEN FALSE
    ELSE IF _is_seat_human(st.current_player) THEN FALSE
    ELSE IF ~_get_ai_agent_for_seat(st.current_player) THEN FALSE
    ELSE TRUE

\* a handler of the server returns r.result, leaves the GameLogic object as
\* r.st, _ai_running as running and the tasks as task
ServerCall(op, arg, r, running, task) ==
    /\ Becomes(r.st)
    /\ ret' = [op |-> op, arg |-> arg, from_pos |-> NoPos, to_pos |-> NoPos,
               result |-> r.result]
    /\ pre' = GL
    /\ calls' = calls + 1
    /\ _ai_running' = running
    /\ ai_task' = task
    /\ UNCHANGED <<formations, _ai_worker_busy, _pending_dispatch, _pending_prev_player,
                   threads, unserved>>

TaskCreated(task, made) == [task EXCEPT !.created = @ + (IF made THEN 1 ELSE 0)]

\* the handler of "skip_turn" returns: the call of skip_turn returned r and
\* _schedule_ai_if_needed was called if made_call, where it created a task
\* if made
SkipTurnReturns(r, made) ==
    ServerCall("handle_skip_turn", NoArea,
               [st |-> r.st, result |-> [success |-> r.result, task_created |-> made]],
               _ai_running, TaskCreated(ai_task, made))

SkipTurnSchedules(r) ==
    SkipTurnReturns(r, r.result /\ _schedule_ai_if_needed(r.st, _ai_running))

\* handle_client_message, message type "skip_turn"
HandleSkipTurn ==
    /\ calls < MaxAiCalls
    /\ ai_task.created < MaxTasks
    /\ SkipTurnSchedules(skip_turn(GL))

\* what handle_ai_move does before the retry loop: error is the code of the
\* error sent ("" for none), entered whether the retry loop is entered
handle_ai_move_begin(st, running) ==
    IF st.game_state # "PLAYING" THEN [error |-> "BAD_STATE", entered |-> FALSE]
    ELSE IF running THEN [error |-> "", entered |-> FALSE]
    ELSE IF _is_seat_human(st.current_player) THEN [error |-> "", entered |-> FALSE]
    ELSE IF ~_get_ai_agent_for_seat(st.current_player)
         THEN [error |-> "AI_UNAVAILABLE", entered |-> FALSE]
    ELSE IF enumerate_player_legal_moves(st.board, st.current_player) = <<>>
         THEN [error |-> "NO_LEGAL_MOVE", entered |-> FALSE]
    ELSE [error |-> "", entered |-> TRUE]

\* a task of handle_ai_move has run to its first suspension or to a return
AiMoveBegins(r) ==
    ServerCall("handle_ai_move_begin", current_player, [st |-> GL, result |-> r],
               IF r.entered THEN TRUE ELSE _ai_running,
               IF r.entered
               THEN [ai_task EXCEPT !.created = @ - 1, !.pc = "loop", !.cp = current_player]
               ELSE [ai_task EXCEPT !.created = @ - 1])

\* a task of handle_ai_move begins and runs to its first suspension in the loop
HandleAiMove ==
    /\ calls < MaxAiCalls
    /\ ai_task.created > 0
    /\ AiMoveBegins(handle_ai_move_begin(GL, _ai_running))

\* the end of a pass in which move_piece was called and returned success
ai_executed(success) ==
    [st |-> success.st, again |-> ~success.result, moved |-> success.result]

\* one pass through the body of the retry loop of handle_ai_move in which the
\* agent's answer is the move answer: again says whether the pass ends in a
\* continue, moved whether it made the move
ai_attempt(st, cp, answer) ==
    IF st.current_player # cp THEN [st |-> st, again |-> FALSE, moved |-> FALSE]
    ELSE IF answer \notin legal_move_set(st.board, cp)
         THEN [st |-> st, again |-> TRUE, moved |-> FALSE]
    ELSE IF ~Board_can_move(st.board, answer[1], answer[2])
         THEN [st |-> st, again |-> TRUE, moved |-> FALSE]
    ELSE ai_executed(move_piece(st, answer[1], answer[2]))

\* the value of attempts after the passes whose answers are rejected by a
\* validation or raise an exception: the first fails passes of the loop
rejected_attempts(fails) == IF fails < max_attempts THEN fails ELSE max_attempts

RECURSIVE ai_attempts(_,_,_)
\* the retry loop of handle_ai_move from the test of its condition, when
\* every further answer of the agent is the move answer.  A pass that ends
\* in a continue leaves the GameLogic object as it found it, so every pass
\* with the move answer does what the first of them, pass, does.
ai_attempts(st, pass, attempts) ==
    IF ~(attempts < max_attempts) THEN [st |-> st, attempts |-> attempts, moved |-> FALSE]
    ELSE IF pass.again THEN ai_attempts(pass.st, pass, attempts + 1)
    ELSE [st |-> pass.st, attempts |-> attempts + 1, moved |-> pass.moved]

\* what handle_ai_move does after the retry loop has ended as loop
ai_move_end(loop) ==
    [st |-> loop.st,
     result |-> IF loop.attempts >= max_attempts
                THEN [error |-> "AI_RETRY_EXHAUSTED", moved |-> loop.moved,
                      attempts |-> loop.attempts, scheduling |-> FALSE,
                      task_created |-> FALSE]
                ELSE [error |-> "", moved |-> loop.moved, attempts |-> loop.attempts,
                      scheduling |-> TRUE,
                      task_created |-> _schedule_ai_if_needed(loop.st, FALSE)]]

\* the retry loop and the end of handle_ai_move
handle_ai_move(st, cp, fails, answer) ==
    ai_move_end(ai_attempts(st, ai_attempt(st, cp, answer), rejected_attempts(fails)))

\* the task of handle_ai_move has ended
AiMoveReturns(cp, fails, answer, r) ==
    ServerCall("handle_ai_move", <<cp, fails, answer>>, r, FALSE,
               TaskCreated([ai_task EXCEPT !.pc = "idle", !.cp = NoArea],
                           r.result.task_created))

\* the suspended task of handle_ai_move goes on to its end
AiRetryLoop ==
    /\ ai_task.pc = "loop"
    /\ ai_task.created < MaxTasks
    /\ \E fails \in FailChoices,
          answer \in legal_move_set(board, ai_task.cp) \cup {<<NoPos, NoPos>>} :
        AiMoveReturns(ai_task.cp, fails, answer,
                      handle_ai_move(GL, ai_task.cp, fails, answer))

InitAiMove == StartFrom(TurnScenes \cup MixedScenes)

NextAiMove == HandleSkipTurn \/ HandleAiMove \/ AiRetryLoop

SpecAiMove == InitAiMove /\ [][NextAiMove]_vars

\* C39: a successful move of handle_ai_move on any attempt, the last allowed
\* one included, is followed by the clearing of _ai_running and the call of
\* _schedule_ai_if_needed and by no AI_RETRY_EXHAUSTED error; that error is
\* sent only when no attempt made a move.
C39_SuccessNeverReportedAsExhausted ==
    ret.op = "handle_ai_move" =>
        /\ ret.result.moved =>
            /\ ~_ai_running
            /\ ret.result.scheduling
            /\ ret.result.error # "AI_RETRY_EXHAUSTED"
        /\ ret.result.error = "AI_RETRY_EXHAUSTED" => ~ret.result.moved

(***************************************************************************)
(* GameProcess._build_public_state of server/game_process.py, asked for    *)
(* after at most one move, together with the state built for the same game *)
(* in which some pieces that are neither revealed nor the current seat's   *)
(* are of another kind.                                                    *)
(***************************************************************************)
MaxBuildCalls == 1

\* bound on the number of pieces that are of another kind in the other game
MaxChanged == 1

\* piece_info of _build_public_state for a cell ("None" for an empty one)
built_piece_info(piece) ==
    IF piece = NoPiece THEN [player_id |-> NoArea, piece_id |-> NoId, visible |-> FALSE,
                             can_move |-> FALSE, none |-> TRUE]
    ELSE [player_id |-> piece.player, piece_id |-> piece.piece_id,
          visible |-> piece.visible, can_move |-> Piece_can_move(piece), none |-> FALSE]

\* the entry of "board"."cells" for the cell at position
built_cell(b, position) ==
    [row |-> position[1], col |-> position[2], cell_type |-> cell_type[position],
     piece |-> built_piece_info(b[position])]

\* the cells whose piece has an id
cells_with_id(b) == {c \in Cells : b[c] # NoPiece /\ b[c].piece_id # NoId}

\* the entry of id_coords_map for the piece on position (piece ids are not
\* repeated on a board); the key face is left out ("ABSENT") for a piece
\* that is not the current seat's
id_coords_entry(b, position, current_seat) ==
    LET local == _get_local_coords(position, b[position].player)
    IN  [piece_id |-> b[position].piece_id, row |-> local[1], col |-> local[2],
         face |-> IF current_seat # NoArea /\ b[position].player = current_seat
                  THEN b[position].piece_type ELSE "ABSENT"]

\* the dictionary _build_public_state returns when _current_turn_player is
\* current_seat (NoArea for None), without the keys that do not come from
\* the GameLogic object (faction names, teams, personas) and without
\* piece_id_local_map, which is built and not returned
_build_public_state(st, current_seat) ==
    [state |-> st.game_state,
     current_player |-> IF current_seat # NoArea THEN current_seat ELSE st.current_player,
     current_player_faction |-> IF current_seat # NoArea THEN faction_map[current_seat]
                                ELSE "None",
     setup_complete |-> st.setup_complete,
     eliminated_players |-> st.eliminated_players,
     board |-> [rows |-> 17, cols |-> 17,
                cells |-> {built_cell(st.board, c) : c \in Cells}],
     id_coords |-> {id_coords_entry(st.board, c, current_seat) : c \in cells_with_id(st.board)},
     history |-> [i \in 1..Len(st.history) |-> to_dict(st.history[i])]]

InitBuild == StartFrom(MixedScenes)

BuildMovePiece == calls < MaxBuildCalls /\ DoMovePiece

BuildPublicState ==
    /\ ret.op # "_build_public_state"
    /\ \E current_seat \in Viewers, k \in OtherKinds :
        \E cells \in {h \in SUBSET HiddenFrom(GL, current_seat) :
                            Cardinality(h) <= MaxChanged} :
            ret' = [op |-> "_build_public_state",
                    arg |-> [current_seat |-> current_seat, cells |-> cells, kind |-> k],
                    from_pos |-> NoPos, to_pos |-> NoPos,
                    result |-> _build_public_state(GL, current_seat),
                    variant |-> _build_public_state(WithKinds(GL, cells, k), current_seat)]
    /\ pre' = GL
    /\ UNCHANGED <<server_vars, board, game_state, current_player, eliminated_players,
                   history, setup_complete, formations, calls>>

NextBuild == BuildMovePiece \/ BuildPublicState

SpecBuild == InitBuild /\ [][NextBuild]_vars

\* C40: the public state that GameProcess builds depends on public
\* information only: the same game with pieces that are not revealed (and
\* not the current seat's own) being of another kind has the same built
\* state, the can_move fields of the pieces included.
C40_BuiltStateHidesKinds ==
    ret.op = "_build_public_state" => ret.variant = ret.result

====
